---- MODULE Spec2Model ----
(***************************************************************************)
(* Verification model of agentfacts/mcp-proxy.                             *)
(*                                                                         *)
(* RouterSpec  - one Route call at a time through internal/router, wired   *)
(*               as cmd/proxy newApplication wires it (policy evaluator,   *)
(*               upstream sender, audit logger) and ended by the           *)
(*               transport's handling of Route's return value.             *)
(* SessionSpec - internal/session Manager: Create, Get, Delete and the     *)
(*               background cleanup, interleaved at the granularity of     *)
(*               their sync.Map operations and mutex sections.             *)
(***************************************************************************)
EXTENDS Integers, Sequences, FiniteSets, TLC

VARIABLES
    \* ---- configuration fixed by newApplication / NewEngine ----
    policyEnabled,   \* Engine.enabled
    policyMode,      \* Engine.mode
    upstreamState,   \* "none": no upstream client; else the client's connected flag
    auditEnabled,    \* app.auditWriter # nil
    transport,       \* "stdio" or "sse"
    \* ---- the Route call in progress ----
    pc,              \* position of the Route call
    msg,             \* the raw inbound message
    req,             \* the parsed Request (pooled)
    reqCtx,          \* the RequestContext (pooled)
    decision,        \* *PolicyDecision held by Route
    response,        \* []byte returned by Route
    routeErr,        \* error returned by Route
    evalOutcome,     \* what the policy engine answered for this request
    upOutcome,       \* what the upstream sender answered for this request
    evalCalls,       \* policyEvaluator invocations for this request
    upstreamCalls,   \* upstreamSender invocations for this request
    auditCalls,      \* auditLogger invocations for this request
    auditRows,       \* records handed to audit.Writer.Write for this request
    outbound,        \* what the transport sent to the client for this request
    \* ---- session manager ----
    sessions,        \* Manager.sessions: the ids stored in the sync.Map
    closed,          \* sessions whose Done channel is closed
    stale,           \* sessions whose age exceeds the TTL or idle time TTL/2
    activeCount,     \* Manager.activeCount
    totalCreated,    \* Manager.totalCreated
    delPc,           \* per caller: position inside Delete
    delId,           \* per caller: the id being deleted
    sweepPc,         \* position of cleanup
    sweepKey,        \* the entry the Range callback of cleanup is visiting
    sweepTodo,       \* entries Range has still to visit in this sweep
    createResult,    \* what the last Create returned
    lastDeleted,     \* the id of the last Delete call that has returned
    panicked,        \* a goroutine of the session package has panicked
    \* ---- one Session and its outbound queue ----
    MessageChan,     \* the messages buffered in Session.MessageChan, oldest first
    Done,            \* Session.Done is closed
    lastSend,        \* the last SendMessage call: what it found and what it returned
    queuePhase,      \* "refused" once a full queue refused a message, "drained" once a
                     \* consumer has taken a message after that
    \* ---- upstream client ----
    connected,       \* Client.connected
    messageURL,      \* Client.messageURL ("" until the endpoint event)
    stream,          \* the event stream: "none", "open", "ending" (handleDisconnect has
                     \* cleared connected and is about to fail the pending slots), "ended"
    wasConnected,    \* handleDisconnect's local wasConnected
    clientDone,      \* Client.done is closed
    pending,         \* Client.pending: request id -> the Send call whose channel it holds
    callPc,          \* per Send call: its position
    callKey,         \* per Send call: the id of its request
    respChan,        \* per Send call: what its response channel holds
    callResult,      \* per Send call: what the call returned
    \* ---- policy engine and its decision cache ----
    modules,         \* Engine.modules: 0 is no module, else the id of the module set
    policyData,      \* Engine.policyData: the id of the data document, 0 the empty one
    query,           \* Engine.query: what the prepared query was compiled from
    l2Cache,         \* DecisionCache.l2Cache: key -> entry
    evPc,            \* per Evaluate call: its position
    evInput,         \* per Evaluate call: its input
    evDecision,      \* per Evaluate call: the decision evaluatePolicy returned
    evalResult,      \* per Evaluate call: what the call returned, but for the decision
    lastEval,        \* the Evaluate that returned in the last step, if one did: its
                     \* input and its decision
    freshData,       \* SetPolicyData has returned and no Evaluate has started since
    \* ---- audit writer ----
    buffer,          \* Writer.buffer: the buffered records, oldest first
    bufferMu,        \* who holds Writer.bufferMu: "free", "write", "flush", ...
    metricMu,        \* who holds Writer.metricMu: "free", "stats", "stop", ...
    flushChan,       \* Writer.flushChan holds a signal
    cancelled,       \* Writer.ctx is cancelled
    nextRec,         \* Write calls made so far; the records are numbered by them
    wPc,             \* position of the Write call in progress
    flPc,            \* position of the flushLoop goroutine
    final,           \* the flush in progress is the one of the ctx.Done case
    batch,           \* flush: the records swapped out of the buffer
    insertOk,        \* flush: InsertBatch returned nil
    written,         \* Writer.written
    dropped,         \* Writer.dropped
    flushes,         \* Writer.flushes
    stored,          \* records the store has committed
    lost,            \* records counted as dropped
    stPc,            \* position of a Stats call
    stopPc,          \* position of the Stop call
    atStop,          \* records Write had accepted when Stop was called
    \* ---- transport server (sse.Server or stdio.Server, by configuration) ----
    srvStarted,      \* Server.started
    srvDone,         \* Server.done is closed
    srvLoop,         \* the serving goroutine (HTTP Serve or readLoop): "none",
                     \* "running", "ended"
    srvSession,      \* the single session of the stdio server: "none", "open", "closed"
    srvStopPc,       \* per Stop call: its position
    srvResult,       \* per Stop call: what the last call returned
    srvPanic,        \* a Stop call has panicked
    \* ---- session manager lifecycle ----
    managerDone,     \* Manager.done is closed
    mgrStopPc,       \* per Stop call: its position
    \* ---- application shutdown ----
    appPc,           \* position of Application.Start / Application.Stop
    ready,           \* health: ready
    obsStopped,      \* the observability server is stopped
    storeClosed,     \* the audit store is closed
    stopLog,         \* the steps of Application.Stop that have returned, in order
    \* ---- request context pool (router requestContextPool) ----
    pooled,          \* the RequestContext lying in the pool, as Release left it
    ctxHeld,         \* a Route call holds a context it has not released
    ctxWas,          \* what the held context contained when it was taken
    \* ---- stdio read loop ----
    input,           \* lines of stdin not yet read
    consumed,        \* lines of stdin the scanner has taken, by kind
    scanErr,         \* the scanner: "nil", or stopped with ErrTooLong ("full*", "shut")
    output,          \* lines written to stdout
    rlPc             \* readLoop: "loop", "exited"

routerVars == <<policyEnabled, policyMode, upstreamState, auditEnabled, transport,
                pc, msg, req, reqCtx, decision, response, routeErr, evalOutcome,
                upOutcome, evalCalls, upstreamCalls, auditCalls, auditRows, outbound>>

sessionVars == <<sessions, closed, stale, activeCount, totalCreated,
                 delPc, delId, sweepPc, sweepKey, sweepTodo,
                 createResult, lastDeleted, panicked>>

queueVars == <<MessageChan, Done, lastSend, queuePhase>>

upstreamVars == <<connected, messageURL, stream, wasConnected, clientDone, pending,
                  callPc, callKey, respChan, callResult>>

engineVars == <<modules, policyData, query, l2Cache, evPc, evInput, evDecision,
                evalResult, lastEval, freshData>>

\* the state of the four components above
coreVars == <<routerVars, sessionVars, queueVars, upstreamVars>>

auditVars == <<buffer, bufferMu, metricMu, flushChan, cancelled, nextRec, wPc, flPc,
               final, batch, insertOk, written, dropped, flushes, stored, lost,
               stPc, stopPc, atStop>>

serverVars == <<srvStarted, srvDone, srvLoop, srvSession, srvStopPc, srvResult,
                srvPanic>>

managerVars == <<managerDone, mgrStopPc>>

appVars == <<appPc, ready, obsStopped, storeClosed, stopLog>>

\* the state of the components below them
poolVars == <<pooled, ctxHeld, ctxWas>>

stdioVars == <<input, consumed, scanErr, output, rlPc>>

laterVars == <<engineVars, auditVars, serverVars, managerVars, appVars, poolVars, stdioVars>>

\* everything but the policy engine
notEngine == <<coreVars, auditVars, serverVars, managerVars, appVars, poolVars, stdioVars>>

\* everything but the audit writer
notAudit == <<coreVars, engineVars, serverVars, managerVars, appVars, poolVars, stdioVars>>

\* everything but the transport server
notServer == <<coreVars, engineVars, auditVars, managerVars, appVars, poolVars, stdioVars>>

\* everything but the session manager
notManager == <<routerVars, queueVars, upstreamVars, engineVars, auditVars, serverVars,
                appVars, poolVars, stdioVars>>

vars == <<coreVars, laterVars>>

-----------------------------------------------------------------------------
(* Bounds of the model *)

\* request ids are "id1" .. "id<MaxId>"
MaxId == 2

\* Manager.maxSessions as configured for the model
maxSessions == 1

\* sessions the model creates over a run; their ids are 1 .. MaxCreated
MaxCreated == 3

\* goroutines calling Manager.Delete concurrently
NumCallers == 2

\* capacity of Session.MessageChan in the model (100 in NewSession)
QueueCap == 3

\* concurrent Client.Send calls
NumSends == 2

\* distinct JSON-RPC ids the Send calls carry
NumKeys == 2

\* concurrent Stop calls on the transport server
NumStoppers == 2

\* lines of an input stream of the stdio transport
MaxLines == 3

\* Writer.bufferMax as configured for the model (100 by default)
bufferMax == 2

\* Write calls over a run
MaxWrites == 4

\* module sets LoadPolicies is called with; their ids are 1 .. NumModules
NumModules == 2

\* data documents SetPolicyData is called with; their ids are 1 .. NumData
NumData == 1

\* tools the policy inputs name: one cache key per tool
NumTools == 2

\* values of the part of a policy input that the cache key leaves out
NumArgs == 2

\* Engine.Evaluate calls in progress at a time; each runs interleaved with
\* LoadPolicies, SetPolicyData, the expiry of entries and the cache cleanup
NumEvaluators == 1

\* DecisionCache.maxEntries as configured for the model (10000 in newApplication)
maxEntries == 1

-----------------------------------------------------------------------------
(* JSON-RPC constants: internal/router/types.go *)

CodeParseError == -32700
CodeInvalidRequest == -32600
CodeInvalidParams == -32602
CodeInternalError == -32603
CodePolicyViolation == -32001
CodeUpstreamError == -32004
maxMethodLength == 256

HandlerPassthrough == "passthrough"
HandlerFullEnforce == "enforce"
HandlerFilter == "filter"

LogNone == "none"
LogMetadata == "metadata"
LogFull == "full"

\* the nil interface{} id: absent, or JSON null
NullID == "null"

IdName(i) == IF i = 1 THEN "id1" ELSE IF i = 2 THEN "id2" ELSE "id3"
IDs == {IdName(i) : i \in 1..MaxId}

RegisteredMethods == {"tools/call", "tools/list", "resources/read", "resources/list",
                      "resources/subscribe", "prompts/get", "prompts/list", "initialize",
                      "ping", "notifications/initialized", "notifications/cancelled"}

MethodRegistry(m) ==
    CASE m \in {"tools/call", "resources/read", "resources/subscribe"}
           -> [Handler |-> HandlerFullEnforce, LogLevel |-> LogFull]
      [] m \in {"tools/list", "resources/list"}
           -> [Handler |-> HandlerFilter, LogLevel |-> LogMetadata]
      [] m \in {"prompts/get", "prompts/list", "initialize", "notifications/cancelled"}
           -> [Handler |-> HandlerPassthrough, LogLevel |-> LogMetadata]
      [] m \in {"ping", "notifications/initialized"}
           -> [Handler |-> HandlerPassthrough, LogLevel |-> LogNone]

-----------------------------------------------------------------------------
(* Inbound messages *)

\* method names the model feeds to the parser
InputMethods == {"", "rpc.test", "bad method", "m257", "tools/call", "resources/read",
                 "resources/subscribe", "tools/list", "initialize", "ping",
                 "notifications/initialized", "unknown/method"}

\* len(req.Method): "m257" stands for a well-formed name of 257 characters
MethodLen(m) == IF m = "m257" THEN 257 ELSE IF m = "" THEN 0 ELSE 10

\* methodPattern ^[a-zA-Z][a-zA-Z0-9_/]*$
MatchesMethodPattern(m) == m \notin {"", "rpc.test", "bad method"}

HasRpcPrefix(m) == m = "rpc.test"

NilParams == [kind |-> "nil", name |-> "", uri |-> "", hasMeta |-> FALSE, agentfacts |-> ""]
InvalidParams == [kind |-> "invalid", name |-> "", uri |-> "", hasMeta |-> FALSE, agentfacts |-> ""]
ObjectParams(n, u, hm, t) ==
    [kind |-> "object", name |-> n, uri |-> u, hasMeta |-> hm, agentfacts |-> t]

ParamsSet == {NilParams, InvalidParams,
              ObjectParams("", "", FALSE, ""),
              ObjectParams("read_file", "", FALSE, ""),
              ObjectParams("read_file", "file:///x", FALSE, ""),
              ObjectParams("read_file", "file:///x", TRUE, "token123")}

EmptyMessage == [shape |-> "empty", jsonrpc |-> "", id |-> NullID, method |-> "",
                 params |-> NilParams]
BadJSONMessage == [shape |-> "badjson", jsonrpc |-> "", id |-> NullID, method |-> "",
                   params |-> NilParams]

Messages ==
    {EmptyMessage, BadJSONMessage} \cup
    [shape : {"json"}, jsonrpc : {"2.0", "1.0"}, id : IDs \cup {NullID},
     method : InputMethods, params : ParamsSet]

NoMessage == [shape |-> "none", jsonrpc |-> "", id |-> NullID, method |-> "",
              params |-> NilParams]

-----------------------------------------------------------------------------
(* Parser: internal/router/parser *)

NoRequest == [JSONRPC |-> "", ID |-> NullID, Method |-> "", Params |-> NilParams]

ParseOk(r) == [ok |-> TRUE, code |-> 0, message |-> "", req |-> r]
ParseFail(c, t) == [ok |-> FALSE, code |-> c, message |-> t, req |-> NoRequest]

Parse(data) ==
    IF data.shape = "empty" THEN ParseFail(CodeParseError, "Empty message")
    ELSE IF data.shape = "badjson" THEN ParseFail(CodeParseError, "Invalid JSON")
    ELSE IF data.jsonrpc # "2.0" THEN ParseFail(CodeInvalidRequest, "Invalid JSON-RPC version")
    ELSE IF data.method = "" THEN ParseFail(CodeInvalidRequest, "Missing 'method' field")
    ELSE IF MethodLen(data.method) > maxMethodLength
        THEN ParseFail(CodeInvalidRequest, "Method name too long")
    ELSE IF ~MatchesMethodPattern(data.method)
        THEN ParseFail(CodeInvalidRequest, "Invalid method name format")
    ELSE IF HasRpcPrefix(data.method)
        THEN ParseFail(CodeInvalidRequest, "Method names starting with 'rpc.' are reserved")
    ELSE ParseOk([JSONRPC |-> data.jsonrpc, ID |-> data.id, Method |-> data.method,
                  Params |-> data.params])

ParseToolCall(r) ==
    IF r.Params.kind = "nil" THEN ParseFail(CodeInvalidParams, "Missing 'params' for tools/call")
    ELSE IF r.Params.kind = "invalid" THEN ParseFail(CodeInvalidParams, "Invalid tools/call params")
    ELSE IF r.Params.name = "" THEN ParseFail(CodeInvalidParams, "Missing 'name' in tools/call params")
    ELSE ParseOk(r)

ParseResourceRead(r) ==
    IF r.Params.kind = "nil" THEN ParseFail(CodeInvalidParams, "Missing 'params' for resources/read")
    ELSE IF r.Params.kind = "invalid" THEN ParseFail(CodeInvalidParams, "Invalid resources/read params")
    ELSE IF r.Params.uri = "" THEN ParseFail(CodeInvalidParams, "Missing 'uri' in resources/read params")
    ELSE ParseOk(r)

IsNotification(r) == r.ID = NullID

-----------------------------------------------------------------------------
(* Request context: internal/router/types.go *)

NoConfig == [Handler |-> "", LogLevel |-> ""]

NoRequestContext == [RequestID |-> "", Method |-> "", Tool |-> "", ResourceURI |-> "",
                     AgentFactsToken |-> "", Config |-> NoConfig]

NewRequestContextAt(r) ==
    [RequestID |-> "req_0a1b2c3d", Method |-> r.Method, Tool |-> "", ResourceURI |-> "",
     AgentFactsToken |-> "",
     Config |-> IF r.Method \in RegisteredMethods
                THEN MethodRegistry(r.Method)
                ELSE [Handler |-> HandlerPassthrough, LogLevel |-> LogMetadata]]

\* extractRequestDetails: the error it returns, and the context it leaves
extractRequestDetails(r, c) ==
    IF r.Method = "tools/call"
    THEN IF ParseToolCall(r).ok
         THEN [err |-> ParseOk(r),
               ctx |-> [c EXCEPT !.Tool = r.Params.name,
                                 !.AgentFactsToken = IF r.Params.hasMeta
                                                     THEN r.Params.agentfacts ELSE @]]
         ELSE [err |-> ParseToolCall(r), ctx |-> c]
    ELSE IF r.Method = "resources/read"
    THEN IF ParseResourceRead(r).ok
         THEN [err |-> ParseOk(r),
               ctx |-> [c EXCEPT !.ResourceURI = r.Params.uri,
                                 !.AgentFactsToken = IF r.Params.hasMeta
                                                     THEN r.Params.agentfacts ELSE @]]
         ELSE [err |-> ParseResourceRead(r), ctx |-> c]
    ELSE [err |-> ParseOk(r), ctx |-> c]

\* Parser.ExtractMeta as Route uses it: the token when params carries _meta
ExtractMeta(c, p) ==
    IF p.kind = "object" /\ p.hasMeta THEN [c EXCEPT !.AgentFactsToken = p.agentfacts] ELSE c

-----------------------------------------------------------------------------
(* Responses: internal/router response builder *)

NoData == [present |-> FALSE, request_id |-> "", agent_id |-> "", tool |-> "",
           agent_capabilities |-> <<>>, violations |-> <<>>, policy_mode |-> ""]

\* a nil []byte
NoResponse == [kind |-> "none", id |-> NullID, code |-> 0, message |-> "",
               data |-> NoData, body |-> NoMessage]

Error(id, code, message) ==
    [kind |-> "error", id |-> id, code |-> code, message |-> message,
     data |-> NoData, body |-> NoMessage]

ErrorWithData(id, code, message, data) ==
    [kind |-> "error", id |-> id, code |-> code, message |-> message,
     data |-> data, body |-> NoMessage]

InternalError(id, message) == Error(id, CodeInternalError, message)

UpstreamError(id, message) == Error(id, CodeUpstreamError, message)

FromParseError(err, id) == Error(id, err.code, err.message)

PolicyViolation(id, c, agentID, capabilities, violations, mode) ==
    ErrorWithData(id, CodePolicyViolation,
                  IF Len(violations) > 0 THEN violations[1] ELSE "Policy violation",
                  [present |-> TRUE, request_id |-> c.RequestID, agent_id |-> agentID,
                   tool |-> c.Tool, agent_capabilities |-> capabilities,
                   violations |-> violations, policy_mode |-> mode])

\* the message handed back unchanged
Echo(m) == [kind |-> "echo", id |-> m.id, code |-> 0, message |-> "",
            data |-> NoData, body |-> m]

\* a JSON-RPC reply of the upstream server
UpstreamResult(id) == [kind |-> "result", id |-> id, code |-> 0, message |-> "",
                       data |-> NoData, body |-> NoMessage]

-----------------------------------------------------------------------------
(* Session fields the router reads *)

AgentID == "agent-1"
AgentCapabilities == <<"read:files">>

-----------------------------------------------------------------------------
(* Policy engine as the router sees it: internal/policy Engine.Evaluate and   *)
(* the evaluator closure of newApplication                                    *)

ViolationLists == {<<>>, <<"lacks capability">>, <<"lacks capability", "tool blocked">>}

\* what the compiled query can answer for one input
RawOutcomes ==
    {[kind |-> "error", allow |-> FALSE, violations |-> <<>>, rule |-> ""],
     [kind |-> "empty", allow |-> FALSE, violations |-> <<>>, rule |-> ""]} \cup
    [kind : {"value"}, allow : BOOLEAN, violations : ViolationLists,
     rule : {"", "rule_a"}]

NoDecision == [kind |-> "nil", Allow |-> FALSE, Violations |-> <<>>, MatchedRule |-> "",
               PolicyMode |-> ""]

Decision(a, v, r, m) ==
    [kind |-> "decision", Allow |-> a, Violations |-> v, MatchedRule |-> r, PolicyMode |-> m]

NoOutcome == [err |-> FALSE, decision |-> NoDecision]

\* Engine.evaluatePolicy
evaluatePolicy(raw, mode) ==
    IF raw.kind = "error" THEN [err |-> TRUE, decision |-> NoDecision]
    ELSE IF raw.kind = "empty"
    THEN [err |-> FALSE,
          decision |-> Decision(FALSE, <<"No policy decision returned">>, "no_result", mode)]
    ELSE [err |-> FALSE, decision |-> Decision(raw.allow, raw.violations, raw.rule, mode)]

\* Engine.Evaluate, its decision already tagged with result.PolicyMode
Evaluate(raw, enabled, mode) ==
    IF ~enabled
    THEN [err |-> FALSE, decision |-> Decision(TRUE, <<>>, "policy_disabled", mode)]
    ELSE evaluatePolicy(raw, mode)

\* the PolicyEvaluator closure: (nil, err) on an engine error
policyEvaluator(raw, enabled, mode) ==
    IF Evaluate(raw, enabled, mode).err
    THEN [err |-> TRUE, decision |-> NoDecision]
    ELSE Evaluate(raw, enabled, mode)

-----------------------------------------------------------------------------
(* Upstream sender closure of newApplication *)

NoUpstream == [kind |-> "none", err |-> FALSE, resp |-> NoResponse]

\* up = TRUE: the upstream answered the request; FALSE: Send returned an error
upstreamSender(m, state, up) ==
    IF state = "connected"
    THEN IF up THEN [kind |-> "sent", err |-> FALSE, resp |-> UpstreamResult(m.id)]
               ELSE [kind |-> "sent", err |-> TRUE, resp |-> NoResponse]
    ELSE [kind |-> "echo", err |-> FALSE, resp |-> Echo(m)]

-----------------------------------------------------------------------------
(* Audit logger closure of newApplication *)

RECURSIVE Join(_, _)
Join(s, sep) ==
    IF Len(s) = 0 THEN ""
    ELSE IF Len(s) = 1 THEN s[1]
    ELSE s[1] \o sep \o Join(Tail(s), sep)

\* variant: every row is written as allowed
AuditAllowedAlways(d) == TRUE

AuditAllowed(d) == d.kind = "nil" \/ d.Allow

AuditRecord(c, d) ==
    [request_id |-> c.RequestID, method |-> c.Method, tool |-> c.Tool,
     resource_uri |-> c.ResourceURI,
     allowed |-> AuditAllowed(d),
     matched_rule |-> IF d.kind # "nil" THEN d.MatchedRule ELSE "",
     violations |-> IF d.kind # "nil" /\ Len(d.Violations) > 0
                    THEN Join(d.Violations, "; ") ELSE "",
     policy_mode |-> IF d.kind # "nil" THEN d.PolicyMode ELSE ""]

-----------------------------------------------------------------------------
(* Router: internal/router/router.go *)

PolicyModes == {"enforce", "audit"}

\* no Route call in progress
RouterIdle ==
    /\ pc = "idle"
    /\ msg = NoMessage
    /\ req = NoRequest
    /\ reqCtx = NoRequestContext
    /\ decision = NoDecision
    /\ response = NoResponse
    /\ routeErr = FALSE
    /\ evalOutcome = NoOutcome
    /\ upOutcome = NoUpstream
    /\ evalCalls = 0
    /\ upstreamCalls = 0
    /\ auditCalls = 0
    /\ auditRows = <<>>
    /\ outbound = <<>>

RouterInit ==
    /\ policyEnabled \in BOOLEAN
    /\ policyMode \in PolicyModes
    /\ upstreamState \in {"none", "disconnected", "connected"}
    /\ auditEnabled \in BOOLEAN
    /\ transport \in {"stdio", "sse"}
    /\ RouterIdle

configVars == <<policyEnabled, policyMode, upstreamState, auditEnabled, transport>>

\* variant: Route carries on after extractRequestDetails has failed
RouteValidateLax(m) ==
    LET p == Parse(m) IN
    IF ~p.ok
    THEN [next |-> "return", resp |-> FromParseError(p, NullID),
          req |-> NoRequest, ctx |-> NoRequestContext]
    ELSE LET e == extractRequestDetails(p.req, NewRequestContextAt(p.req)) IN
         [next |-> "classify", resp |-> NoResponse,
          req |-> p.req, ctx |-> ExtractMeta(e.ctx, p.req.Params)]

\* Route, lines 64-93: where Route goes once Parse and extractRequestDetails have
\* answered, and the reply it has built if it stops there
RouteValidate(m) ==
    LET p == Parse(m) IN
    IF ~p.ok
    THEN [next |-> "return", resp |-> FromParseError(p, NullID),
          req |-> NoRequest, ctx |-> NoRequestContext]
    ELSE LET e == extractRequestDetails(p.req, NewRequestContextAt(p.req)) IN
         IF ~e.err.ok
         THEN [next |-> "return", resp |-> FromParseError(e.err, p.req.ID),
               req |-> p.req, ctx |-> e.ctx]
         ELSE [next |-> "classify", resp |-> NoResponse,
               req |-> p.req, ctx |-> ExtractMeta(e.ctx, p.req.Params)]

\* A message arrives and Route parses and validates it.
RouteParse(m) ==
    /\ pc = "idle"
    /\ LET v == RouteValidate(m) IN
        /\ msg' = m
        /\ req' = v.req
        /\ reqCtx' = v.ctx
        /\ response' = v.resp
        /\ pc' = v.next
    /\ UNCHANGED <<configVars, decision, routeErr, evalOutcome, upOutcome, evalCalls,
                   upstreamCalls, auditCalls, auditRows, outbound, sessionVars, queueVars, upstreamVars, laterVars>>

\* handleFilter's fixed decision
FilterDecision == Decision(TRUE, <<>>, "passthrough", "filter")

\* Route, lines 107-119: the switch on reqCtx.Config.Handler
RouteClassify ==
    /\ pc = "classify"
    /\ pc' = IF reqCtx.Config.Handler = HandlerFullEnforce THEN "evaluate" ELSE "forward"
    /\ decision' = IF reqCtx.Config.Handler = HandlerFilter THEN FilterDecision ELSE decision
    /\ UNCHANGED <<configVars, msg, req, reqCtx, response, routeErr, evalOutcome, upOutcome,
                   evalCalls, upstreamCalls, auditCalls, auditRows, outbound, sessionVars, queueVars, upstreamVars, laterVars>>

\* variant: a denial never blocks
BlocksNever(d) == FALSE

\* handleEnforce, lines 190-191: the request is blocked
Blocks(d) == ~d.Allow /\ d.PolicyMode = "enforce"

\* variant: an evaluator error lets the request through
EnforceVerdictIgnoresError(r, c, out) ==
    IF ~out.err /\ Blocks(out.decision)
    THEN [next |-> "audit",
          resp |-> PolicyViolation(r.ID, c, AgentID, AgentCapabilities,
                                   out.decision.Violations, out.decision.PolicyMode)]
    ELSE [next |-> "forward", resp |-> NoResponse]

\* handleEnforce, lines 176-218: the policy evaluator is consulted
EnforceVerdict(r, c, out) ==
    IF out.err
    THEN [next |-> "audit", resp |-> InternalError(r.ID, "Policy evaluation failed")]
    ELSE IF Blocks(out.decision)
    THEN [next |-> "audit",
          resp |-> PolicyViolation(r.ID, c, AgentID, AgentCapabilities,
                                   out.decision.Violations, out.decision.PolicyMode)]
    ELSE [next |-> "forward", resp |-> NoResponse]

RouteEvaluate(raw) ==
    /\ pc = "evaluate"
    /\ evalCalls' = evalCalls + 1
    /\ evalOutcome' = Evaluate(raw, policyEnabled, policyMode)
    /\ LET out == policyEvaluator(raw, policyEnabled, policyMode)
           v == EnforceVerdict(req, reqCtx, out)
       IN /\ decision' = out.decision
          /\ response' = v.resp
          /\ pc' = v.next
    /\ UNCHANGED <<configVars, msg, req, reqCtx, routeErr, upOutcome, upstreamCalls,
                   auditCalls, auditRows, outbound, sessionVars, queueVars, upstreamVars, laterVars>>

\* what each handler returns once the upstream sender has answered:
\* handlePassthrough 167-173, handleEnforce 220-235, handleFilter 249-259
ForwardResult(handler, r, s) ==
    IF handler = HandlerFullEnforce
    THEN IF s.err
         THEN [resp |-> UpstreamError(r.ID, "upstream error"), err |-> FALSE]
         ELSE [resp |-> s.resp, err |-> FALSE]
    ELSE [resp |-> s.resp, err |-> s.err]

RouteForward(up) ==
    /\ pc = "forward"
    /\ upstreamCalls' = upstreamCalls + 1
    /\ LET s == upstreamSender(msg, upstreamState, up)
           f == ForwardResult(reqCtx.Config.Handler, req, s)
       IN /\ upOutcome' = s
          /\ response' = f.resp
          /\ routeErr' = f.err
    /\ pc' = "audit"
    /\ UNCHANGED <<configVars, msg, req, reqCtx, decision, evalOutcome, evalCalls,
                   auditCalls, auditRows, outbound, sessionVars, queueVars, upstreamVars, laterVars>>

\* variant: the audit logger is called whatever the log level
AuditRunsAlways(c) == TRUE

\* Route, line 124: the audit logger is called
AuditRuns(c) == c.Config.LogLevel # LogNone

\* Route, lines 121-126, and the audit logger closure
RouteAudit ==
    /\ pc = "audit"
    /\ auditCalls' = IF AuditRuns(reqCtx) THEN auditCalls + 1 ELSE auditCalls
    /\ auditRows' = IF AuditRuns(reqCtx) /\ auditEnabled
                    THEN Append(auditRows, AuditRecord(reqCtx, decision))
                    ELSE auditRows
    /\ pc' = "return"
    /\ UNCHANGED <<configVars, msg, req, reqCtx, decision, response, routeErr, evalOutcome,
                   upOutcome, evalCalls, upstreamCalls, outbound, sessionVars, queueVars, upstreamVars, laterVars>>

\* stdio extractRequestID
extractRequestID(m) == IF m.shape = "json" THEN m.id ELSE NullID

\* what the transport sends for Route's return value:
\* stdio readLoop 222-243, sse HandleMessage 208-228 (accepted: SendMessage's result)
Deliver(t, m, resp, err, accepted) ==
    IF t = "stdio"
    THEN IF err THEN <<[via |-> "stdout", reply |-> Error(extractRequestID(m), CodeInternalError, "Internal error")]>>
         ELSE IF resp # NoResponse THEN <<[via |-> "stdout", reply |-> resp]>>
         ELSE <<>>
    ELSE IF err THEN <<[via |-> "http", reply |-> Error(NullID, CodeInternalError, "Internal server error")]>>
         ELSE IF resp # NoResponse /\ accepted THEN <<[via |-> "stream", reply |-> resp]>>
         ELSE <<>>

\* Route returns and the transport handles what it returned.
RouteReturn(accepted) ==
    /\ pc = "return"
    /\ outbound' = Deliver(transport, msg, response, routeErr, accepted)
    /\ pc' = "done"
    /\ UNCHANGED <<configVars, msg, req, reqCtx, decision, response, routeErr, evalOutcome,
                   upOutcome, evalCalls, upstreamCalls, auditCalls, auditRows, sessionVars, queueVars, upstreamVars, laterVars>>

\* The transport turns to its next message; nothing of the finished call remains.
TransportNext ==
    /\ pc = "done"
    /\ pc' = "idle"
    /\ msg' = NoMessage
    /\ req' = NoRequest
    /\ reqCtx' = NoRequestContext
    /\ decision' = NoDecision
    /\ response' = NoResponse
    /\ routeErr' = FALSE
    /\ evalOutcome' = NoOutcome
    /\ upOutcome' = NoUpstream
    /\ evalCalls' = 0
    /\ upstreamCalls' = 0
    /\ auditCalls' = 0
    /\ auditRows' = <<>>
    /\ outbound' = <<>>
    /\ UNCHANGED <<configVars, sessionVars, queueVars, upstreamVars, laterVars>>

RouterNext ==
    \/ \E m \in Messages : RouteParse(m)
    \/ RouteClassify
    \/ \E raw \in RawOutcomes : RouteEvaluate(raw)
    \/ \E up \in BOOLEAN : RouteForward(up)
    \/ RouteAudit
    \/ \E accepted \in BOOLEAN : RouteReturn(accepted)
    \/ TransportNext

-----------------------------------------------------------------------------
(* Properties of Route (RouterSpec) *)

\* Parse or extractRequestDetails answers message m with an error
Rejected(m) ==
    \/ ~Parse(m).ok
    \/ ~extractRequestDetails(Parse(m).req, NewRequestContextAt(Parse(m).req)).err.ok

\* the policy engine denied the request of the call in progress
EngineDenied == evalCalls = 1 /\ ~evalOutcome.err /\ ~evalOutcome.decision.Allow

\* C1: every request that carries a non-null id gets exactly one reply from Route,
\* and that reply carries the id of the request, whatever its classification and
\* outcome.
C1_OneReplyWithRequestId ==
    (pc = "done" /\ Parse(msg).ok /\ msg.id # NullID)
        => (response # NoResponse /\ response.id = msg.id)

\* C2: a notification (a request whose id is absent) gets no outbound reply, also
\* when it is denied, fails parameter validation or the upstream returns an error.
C2_NoReplyToNotification ==
    (pc = "done" /\ Parse(msg).ok /\ IsNotification(Parse(msg).req))
        => outbound = <<>>

\* C3: when the engine denies an Enforce-classified request in mode "enforce", the
\* upstream sender is not invoked, the reply is an error with code -32001, and
\* error.data.violations is the decision's list of violations, in the same order.
C3_EnforceDenyBlocks ==
    (EngineDenied /\ evalOutcome.decision.PolicyMode = "enforce")
        => /\ reqCtx.Config.Handler = HandlerFullEnforce
           /\ upstreamCalls = 0
           /\ response.kind = "error"
           /\ response.code = -32001
           /\ response.data.present
           /\ response.data.violations = evalOutcome.decision.Violations

C3_Witness ==
    /\ pc = "done"
    /\ EngineDenied
    /\ policyMode = "enforce"
    /\ Len(evalOutcome.decision.Violations) = 2
    /\ response.code = -32001
    /\ Len(outbound) = 1

\* C4: when Route rejects a message with a parse or validation error, it returns a
\* JSON-RPC error reply, and for that message the policy evaluator is not called,
\* the upstream sender is not called and no audit row is written.
C4_RejectionIsTerminal ==
    (msg # NoMessage /\ Rejected(msg))
        => /\ response.kind = "error"
           /\ response.code \in {-32700, -32600, -32602}
           /\ ~routeErr
           /\ evalCalls = 0
           /\ upstreamCalls = 0
           /\ auditCalls = 0
           /\ auditRows = <<>>

C4_Witness ==
    /\ pc = "done"
    /\ msg.shape = "json"
    /\ msg.method = "tools/call"
    /\ Parse(msg).ok
    /\ Rejected(msg)
    /\ response.code = -32602
    /\ auditEnabled

\* C5: when the policy evaluator returns an error for an Enforce-classified request,
\* Route replies with a -32603 Internal error and the upstream sender is never
\* invoked for that request.
C5_EvaluatorErrorIsInternalError ==
    (evalCalls = 1 /\ evalOutcome.err)
        => /\ reqCtx.Config.Handler = HandlerFullEnforce
           /\ response.kind = "error"
           /\ response.code = -32603
           /\ response.id = msg.id
           /\ ~routeErr
           /\ upstreamCalls = 0

C5_Witness ==
    /\ pc = "done"
    /\ evalCalls = 1
    /\ evalOutcome.err
    /\ upstreamState = "connected"
    /\ response.code = -32603

\* C6: whenever the upstream sender returns an error, the reply produced by Route is
\* a JSON-RPC error with code -32004, for Passthrough, Enforce and Filter requests.
C6_UpstreamErrorIs32004 ==
    (pc = "done" /\ upstreamCalls = 1 /\ upOutcome.err)
        => (response.kind = "error" /\ response.code = -32004)

\* C7: when the engine denies an Enforce-classified request while the policy mode is
\* "audit", the upstream sender is invoked, what Route returns (and the transport
\* sends) is what the sender answered, and the audit row of the request has
\* allowed = false and holds the decision's violations.
C7_AuditModeDenyForwards ==
    (pc = "done" /\ EngineDenied /\ policyMode = "audit")
        => /\ reqCtx.Config.Handler = HandlerFullEnforce
           /\ upstreamCalls = 1
           /\ ~upOutcome.err => (response = upOutcome.resp /\ response.kind # "error")
           /\ \A i \in 1..Len(outbound) : outbound[i].reply = response
           /\ transport = "stdio" => Len(outbound) = 1
           /\ auditCalls = 1
           /\ auditEnabled =>
                /\ Len(auditRows) = 1
                /\ auditRows[1].allowed = FALSE
                /\ auditRows[1].violations = Join(evalOutcome.decision.Violations, "; ")
                /\ auditRows[1].policy_mode = "audit"

C7_Witness ==
    /\ pc = "done"
    /\ EngineDenied
    /\ policyMode = "audit"
    /\ upOutcome.kind = "sent"
    /\ response.kind = "result"
    /\ Len(outbound) = 1
    /\ Len(auditRows) = 1
    /\ auditRows[1].violations = "lacks capability; tool blocked"

\* C8: for every request that parses and validates, the audit step runs exactly once
\* if the log level of the method's classification is Metadata or Full, and not at
\* all if it is None (ping, notifications/initialized).
C8_AuditRunsIffLogged ==
    (pc = "done" /\ msg # NoMessage /\ ~Rejected(msg))
        => /\ auditCalls =
                IF NewRequestContextAt(Parse(msg).req).Config.LogLevel \in {LogMetadata, LogFull}
                THEN 1 ELSE 0
           /\ msg.method \in {"ping", "notifications/initialized"} => auditCalls = 0
           /\ msg.method \notin {"ping", "notifications/initialized"} => auditCalls = 1
           /\ auditEnabled => Len(auditRows) = auditCalls

C8_Witness ==
    /\ pc = "done"
    /\ msg.method = "tools/list"
    /\ auditCalls = 1
    /\ Len(auditRows) = 1

-----------------------------------------------------------------------------
(* Session manager: internal/session Manager *)

SessionIds == 1..MaxCreated
Callers == 1..NumCallers

\* variant: Close closes the Done channel without looking at it first
CloseUnguarded(isClosed) == [closed |-> TRUE, panic |-> isClosed]

\* Session.Close on a session whose Done channel is closed (isClosed) or open:
\* the select closes the channel only when it is still open
Close(isClosed) ==
    IF isClosed THEN [closed |-> TRUE, panic |-> FALSE]
                ELSE [closed |-> TRUE, panic |-> FALSE]

\* NewManager: an empty map, both counters zero, nobody inside Delete or cleanup
SessionInit ==
    /\ sessions = {}
    /\ closed = {}
    /\ stale = {}
    /\ activeCount = 0
    /\ totalCreated = 0
    /\ delPc = [c \in Callers |-> "idle"]
    /\ delId = [c \in Callers |-> 0]
    /\ sweepPc = "idle"
    /\ sweepKey = 0
    /\ sweepTodo = {}
    /\ createResult = "none"
    /\ lastDeleted = 0
    /\ panicked = FALSE

\* variant: Create admits a session when the manager already holds maxSessions
CreateOneTooMany ==
    /\ totalCreated < MaxCreated
    /\ IF activeCount > maxSessions
       THEN /\ createResult' = "MaxSessionsReached"
            /\ UNCHANGED <<sessions, activeCount, totalCreated>>
       ELSE /\ sessions' = sessions \cup {totalCreated + 1}
            /\ activeCount' = activeCount + 1
            /\ totalCreated' = totalCreated + 1
            /\ createResult' = "ok"
    /\ UNCHANGED <<routerVars, queueVars, upstreamVars, laterVars, closed, stale, delPc, delId,
                   sweepPc, sweepKey, sweepTodo, lastDeleted, panicked>>

\* Create: the limit check, the Store and both increments, all under m.mu.
\* The new session takes the next unused id.
Create ==
    /\ totalCreated < MaxCreated
    /\ IF activeCount >= maxSessions
       THEN /\ createResult' = "MaxSessionsReached"
            /\ UNCHANGED <<sessions, activeCount, totalCreated>>
       ELSE /\ sessions' = sessions \cup {totalCreated + 1}
            /\ activeCount' = activeCount + 1
            /\ totalCreated' = totalCreated + 1
            /\ createResult' = "ok"
    /\ UNCHANGED <<routerVars, queueVars, upstreamVars, laterVars, closed, stale, delPc, delId,
                   sweepPc, sweepKey, sweepTodo, lastDeleted, panicked>>

\* Time passes: the session's Age exceeds the TTL, or its IdleTime half the TTL.
Expire(id) ==
    /\ id \in sessions \ stale
    /\ stale' = stale \cup {id}
    /\ UNCHANGED <<routerVars, queueVars, upstreamVars, laterVars, sessions, closed, activeCount,
                   totalCreated, delPc, delId, sweepPc, sweepKey, sweepTodo,
                   createResult, lastDeleted, panicked>>

\* The holder of a session closes it (Session.Close) without going through the manager.
SessionClose(id) ==
    /\ id \in sessions
    /\ closed' = IF Close(id \in closed).closed THEN closed \cup {id} ELSE closed
    /\ panicked' = (panicked \/ Close(id \in closed).panic)
    /\ UNCHANGED <<routerVars, queueVars, upstreamVars, laterVars, sessions, stale, activeCount,
                   totalCreated, delPc, delId, sweepPc, sweepKey, sweepTodo,
                   createResult, lastDeleted>>

\* what Get(id) returns: the session when the map holds it and it is not closed
GetFinds(id) == id \in sessions /\ id \notin closed

\* Get: Load and IsClosed; a closed session that is still in the map makes Get call
\* Delete(id), which starts with its own LoadAndDelete.
Get(c, id) ==
    /\ delPc[c] = "idle"
    /\ id \in 1..totalCreated
    /\ IF id \in sessions /\ id \in closed
       THEN /\ delPc' = [delPc EXCEPT ![c] = "load"]
            /\ delId' = [delId EXCEPT ![c] = id]
       ELSE UNCHANGED <<delPc, delId>>
    /\ UNCHANGED <<routerVars, queueVars, upstreamVars, laterVars, sessions, closed, stale,
                   activeCount, totalCreated, sweepPc, sweepKey, sweepTodo,
                   createResult, lastDeleted, panicked>>

\* Delete, line 161: sessions.LoadAndDelete(sessionID); a Delete that loads nothing
\* returns at once.
DeleteLoad(c, id) ==
    /\ \/ delPc[c] = "idle" /\ id \in 1..totalCreated
       \/ delPc[c] = "load" /\ id = delId[c]
    /\ IF id \in sessions
       THEN /\ sessions' = sessions \ {id}
            /\ delPc' = [delPc EXCEPT ![c] = "close"]
            /\ delId' = [delId EXCEPT ![c] = id]
            /\ UNCHANGED lastDeleted
       ELSE /\ delPc' = [delPc EXCEPT ![c] = "idle"]
            /\ delId' = [delId EXCEPT ![c] = 0]
            /\ lastDeleted' = id
            /\ UNCHANGED sessions
    /\ UNCHANGED <<routerVars, queueVars, upstreamVars, laterVars, closed, stale, activeCount,
                   totalCreated, sweepPc, sweepKey, sweepTodo, createResult, panicked>>

\* Delete, lines 163-165: sess.Close()
DeleteClose(c) ==
    /\ delPc[c] = "close"
    /\ closed' = IF Close(delId[c] \in closed).closed THEN closed \cup {delId[c]} ELSE closed
    /\ panicked' = (panicked \/ Close(delId[c] \in closed).panic)
    /\ delPc' = [delPc EXCEPT ![c] = "decrement"]
    /\ UNCHANGED <<routerVars, queueVars, upstreamVars, laterVars, sessions, stale, activeCount,
                   totalCreated, delId, sweepPc, sweepKey, sweepTodo,
                   createResult, lastDeleted>>

\* Delete, lines 167-169: activeCount-- under m.mu, and Delete returns
DeleteDecrement(c) ==
    /\ delPc[c] = "decrement"
    /\ activeCount' = activeCount - 1
    /\ delPc' = [delPc EXCEPT ![c] = "idle"]
    /\ delId' = [delId EXCEPT ![c] = 0]
    /\ lastDeleted' = delId[c]
    /\ UNCHANGED <<routerVars, queueVars, upstreamVars, laterVars, sessions, closed, stale,
                   totalCreated, sweepPc, sweepKey, sweepTodo, createResult, panicked>>

\* The cleanup ticker fires: cleanup starts to Range over the entries of the map.
SweepStart ==
    /\ sweepPc = "idle"
    /\ sweepPc' = "range"
    /\ sweepTodo' = sessions
    /\ UNCHANGED <<routerVars, queueVars, upstreamVars, laterVars, sessions, closed, stale,
                   activeCount, totalCreated, delPc, delId, sweepKey,
                   createResult, lastDeleted, panicked>>

\* Range reaches entry k: an entry deleted meanwhile is skipped, any other is handed
\* to the callback.
SweepVisit(k) ==
    /\ sweepPc = "range"
    /\ k \in sweepTodo
    /\ sweepTodo' = sweepTodo \ {k}
    /\ IF k \in sessions
       THEN sweepKey' = k /\ sweepPc' = "check"
       ELSE UNCHANGED <<sweepKey, sweepPc>>
    /\ UNCHANGED <<routerVars, queueVars, upstreamVars, laterVars, sessions, closed, stale,
                   activeCount, totalCreated, delPc, delId,
                   createResult, lastDeleted, panicked>>

\* cleanup's callback, lines 212-246 up to sessions.Delete(key): a closed session is
\* deleted from the map; an expired or idle one is closed and deleted; any other is
\* left alone.
SweepCheck ==
    /\ sweepPc = "check"
    /\ IF sweepKey \in closed
       THEN /\ sessions' = sessions \ {sweepKey}
            /\ sweepPc' = "decrement"
            /\ UNCHANGED <<closed, panicked>>
       ELSE IF sweepKey \in stale
       THEN /\ closed' = IF Close(FALSE).closed THEN closed \cup {sweepKey} ELSE closed
            /\ panicked' = (panicked \/ Close(FALSE).panic)
            /\ sessions' = sessions \ {sweepKey}
            /\ sweepPc' = "decrement"
       ELSE /\ sweepPc' = "range"
            /\ UNCHANGED <<sessions, closed, panicked>>
    /\ UNCHANGED <<routerVars, queueVars, upstreamVars, laterVars, stale, activeCount, totalCreated,
                   delPc, delId, sweepKey, sweepTodo, createResult, lastDeleted>>

\* cleanup's callback: activeCount-- under m.mu
SweepDecrement ==
    /\ sweepPc = "decrement"
    /\ activeCount' = activeCount - 1
    /\ sweepPc' = "range"
    /\ UNCHANGED <<routerVars, queueVars, upstreamVars, laterVars, sessions, closed, stale,
                   totalCreated, delPc, delId, sweepKey, sweepTodo,
                   createResult, lastDeleted, panicked>>

\* Range has visited every entry: cleanup returns.
SweepEnd ==
    /\ sweepPc = "range"
    /\ sweepTodo = {}
    /\ sweepPc' = "idle"
    /\ sweepKey' = 0
    /\ UNCHANGED <<routerVars, queueVars, upstreamVars, laterVars, sessions, closed, stale,
                   activeCount, totalCreated, delPc, delId, sweepTodo,
                   createResult, lastDeleted, panicked>>

\* Create, Get and Delete alone
CapacityNext ==
    \/ Create
    \/ \E id \in SessionIds : SessionClose(id)
    \/ \E c \in Callers, id \in SessionIds : Get(c, id)
    \/ \E c \in Callers, id \in SessionIds : DeleteLoad(c, id)
    \/ \E c \in Callers : DeleteClose(c)
    \/ \E c \in Callers : DeleteDecrement(c)

SessionNext ==
    \/ CapacityNext
    \/ \E id \in SessionIds : Expire(id)
    \/ SweepStart
    \/ \E k \in SessionIds : SweepVisit(k)
    \/ SweepCheck
    \/ SweepDecrement
    \/ SweepEnd

-----------------------------------------------------------------------------
(* Session outbound queue: internal/session Session *)

QueueMessages == {"m1", "m2"}

NoSend == [closed |-> FALSE, len |-> 0, ok |-> FALSE, enqueued |-> FALSE, phase |-> "none"]

\* NewSession: an empty buffered channel, Done open
QueueInit ==
    /\ MessageChan = <<>>
    /\ Done = FALSE
    /\ lastSend = NoSend
    /\ queuePhase = "fresh"

\* variant: the select of SendMessage has no default case
SendMessageBlocking(done, q, m) ==
    (IF done THEN {[ok |-> FALSE, chan |-> q, blocked |-> FALSE]} ELSE {})
    \cup (IF Len(q) < QueueCap THEN {[ok |-> TRUE, chan |-> Append(q, m), blocked |-> FALSE]} ELSE {})
    \cup (IF ~done /\ Len(q) >= QueueCap
          THEN {[ok |-> FALSE, chan |-> q, blocked |-> TRUE]} ELSE {})

\* SendMessage's select: the outcomes the Go runtime may pick. A case that can
\* proceed is chosen among all that can; default runs only when none can.
SendMessage(done, q, m) ==
    (IF done THEN {[ok |-> FALSE, chan |-> q, blocked |-> FALSE]} ELSE {})
    \cup (IF Len(q) < QueueCap THEN {[ok |-> TRUE, chan |-> Append(q, m), blocked |-> FALSE]} ELSE {})
    \cup (IF ~done /\ Len(q) >= QueueCap
          THEN {[ok |-> FALSE, chan |-> q, blocked |-> FALSE]} ELSE {})

\* A caller (sse HandleMessage) hands message m to SendMessage.
QueueSend(m) ==
    /\ \E o \in SendMessage(Done, MessageChan, m) :
        /\ MessageChan' = o.chan
        /\ lastSend' = [closed |-> Done, len |-> Len(MessageChan), ok |-> o.ok,
                        enqueued |-> o.chan # MessageChan,
                        phase |-> IF o.blocked THEN "blocked" ELSE queuePhase]
        /\ queuePhase' = IF o.ok THEN "fresh"
                         ELSE IF ~Done /\ Len(MessageChan) >= QueueCap THEN "refused"
                         ELSE queuePhase
    /\ UNCHANGED <<routerVars, sessionVars, upstreamVars, laterVars, Done>>

\* The consumer (sse HandleSSE's loop) receives the oldest message.
QueueDrain ==
    /\ Len(MessageChan) > 0
    /\ MessageChan' = Tail(MessageChan)
    /\ queuePhase' = IF queuePhase = "refused" THEN "drained" ELSE queuePhase
    /\ UNCHANGED <<routerVars, sessionVars, upstreamVars, laterVars, Done, lastSend>>

\* Session.Close returns.
QueueClose ==
    /\ Done' = Close(Done).closed
    /\ panicked' = (panicked \/ Close(Done).panic)
    /\ UNCHANGED <<routerVars, upstreamVars, laterVars, MessageChan, lastSend, queuePhase,
                   sessions, closed, stale, activeCount, totalCreated, delPc, delId,
                   sweepPc, sweepKey, sweepTodo, createResult, lastDeleted>>

QueueNext ==
    \/ \E m \in QueueMessages : QueueSend(m)
    \/ QueueDrain
    \/ QueueClose

-----------------------------------------------------------------------------
(* Upstream client: internal/upstream Client *)

Calls == 1..NumSends
Keys == 1..NumKeys

\* NewClient: not connected, no message URL, nothing pending
UpstreamInit ==
    /\ connected = FALSE
    /\ messageURL = ""
    /\ stream = "none"
    /\ wasConnected = FALSE
    /\ clientDone = FALSE
    /\ pending = [k \in Keys |-> 0]
    /\ callPc = [c \in Calls |-> "idle"]
    /\ callKey = [c \in Calls |-> 0]
    /\ respChan = [c \in Calls |-> "empty"]
    /\ callResult = [c \in Calls |-> "none"]

\* Connect: the application connects once, at startup; on HTTP 200 the client
\* is marked connected and the reader goroutine is started
Connect(ok) ==
    /\ stream = "none"
    /\ ~connected
    /\ ~clientDone
    /\ connected' = ok
    /\ stream' = IF ok THEN "open" ELSE "none"
    /\ UNCHANGED <<routerVars, sessionVars, queueVars, laterVars, messageURL, wasConnected,
                   clientDone, pending, callPc, callKey, respChan, callResult>>

\* Disconnect: nothing when not connected; else clears connected, closes done
\* and the body of the event stream
Disconnect ==
    /\ connected
    /\ connected' = FALSE
    /\ clientDone' = TRUE
    /\ UNCHANGED <<routerVars, sessionVars, queueVars, laterVars, messageURL, stream,
                   wasConnected, pending, callPc, callKey, respChan, callResult>>

\* handleEvent "endpoint": the message URL is stored
EndpointEvent ==
    /\ stream = "open"
    /\ messageURL' = "url"
    /\ UNCHANGED <<routerVars, sessionVars, queueVars, laterVars, connected, stream,
                   wasConnected, clientDone, pending, callPc, callKey, respChan,
                   callResult>>

\* what a non-blocking send of v leaves in a channel of capacity 1
Offer(ch, v) == IF ch = "empty" THEN v ELSE ch

\* handleEvent "message" with id k: the response goes into the channel that
\* pending holds for k, when there is one and it has room
MessageEvent(k) ==
    /\ stream = "open"
    /\ pending[k] # 0
    /\ respChan' = [respChan EXCEPT ![pending[k]] = Offer(@, "data")]
    /\ UNCHANGED <<routerVars, sessionVars, queueVars, laterVars, connected, messageURL,
                   stream, wasConnected, clientDone, pending, callPc, callKey,
                   callResult>>

\* readEvents: ReadString fails (end of input, read error, body closed by
\* Disconnect); handleDisconnect reads and clears connected
StreamEnd ==
    /\ stream = "open"
    /\ wasConnected' = connected
    /\ connected' = FALSE
    /\ stream' = "ending"
    /\ UNCHANGED <<routerVars, sessionVars, queueVars, laterVars, messageURL, clientDone,
                   pending, callPc, callKey, respChan, callResult>>

\* the pending table after handleDisconnect's loop
FailedPending(was, p) == IF was THEN [k \in Keys |-> 0] ELSE p

\* the channels after handleDisconnect's loop
FailedChans(was, p, chans) ==
    [c \in Calls |->
        IF was /\ (\E k \in Keys : p[k] = c)
        THEN Offer(chans[c], "disconnect")
        ELSE chans[c]]

\* handleDisconnect, second half: when the client was connected every slot
\* is offered the disconnect error and deleted
FailPending ==
    /\ stream = "ending"
    /\ respChan' = FailedChans(wasConnected, pending, respChan)
    /\ pending' = FailedPending(wasConnected, pending)
    /\ stream' = "ended"
    /\ UNCHANGED <<routerVars, sessionVars, queueVars, laterVars, connected, messageURL,
                   wasConnected, clientDone, callPc, callKey, callResult>>

\* readEvents: the loop finds done closed and returns
ReaderExit ==
    /\ stream = "open"
    /\ clientDone
    /\ stream' = "ended"
    /\ UNCHANGED <<routerVars, sessionVars, queueVars, laterVars, connected, messageURL,
                   wasConnected, clientDone, pending, callPc, callKey, respChan,
                   callResult>>

\* Send, up to the request id: the early returns
SendStart(c, k, validJSON) ==
    /\ callPc[c] = "idle"
    /\ LET err == IF ~connected THEN "not connected"
                  ELSE IF messageURL = "" THEN "no message URL"
                  ELSE IF ~validJSON THEN "invalid JSON"
                  ELSE "none"
       IN /\ callResult' = [callResult EXCEPT ![c] = err]
          /\ callPc' = [callPc EXCEPT ![c] = IF err = "none" THEN "register" ELSE "idle"]
          /\ callKey' = [callKey EXCEPT ![c] = IF err = "none" THEN k ELSE 0]
    /\ respChan' = [respChan EXCEPT ![c] = "empty"]
    /\ UNCHANGED <<routerVars, sessionVars, queueVars, laterVars, connected, messageURL,
                   stream, wasConnected, clientDone, pending>>

\* c.pending[requestID] = respChan
Register(p, k, c) == [p EXCEPT ![k] = c]

\* Send: the response channel is stored under the request id
SendRegister(c) ==
    /\ callPc[c] = "register"
    /\ pending' = Register(pending, callKey[c], c)
    /\ callPc' = [callPc EXCEPT ![c] = "post"]
    /\ UNCHANGED <<routerVars, sessionVars, queueVars, laterVars, connected, messageURL,
                   stream, wasConnected, clientDone, callKey, respChan, callResult>>

\* Send: the POST; a transport error or a status other than 200/202 returns
SendPost(c, ok) ==
    /\ callPc[c] = "post"
    /\ callPc' = [callPc EXCEPT ![c] = IF ok THEN "wait" ELSE "unregister"]
    /\ callResult' = [callResult EXCEPT ![c] = IF ok THEN @ ELSE "post failed"]
    /\ UNCHANGED <<routerVars, sessionVars, queueVars, laterVars, connected, messageURL,
                   stream, wasConnected, clientDone, pending, callKey, respChan>>

\* a select without the timer and the context: only a response ends the wait
WaitReadyResponseOnly(c, how) == how = "response" /\ respChan[c] # "empty"

\* the cases of Send's select that are ready: the response channel when it
\* holds a value; the timer fires and the context can be cancelled at any time
WaitReady(c, how) == how = "response" => respChan[c] # "empty"

\* Send: the select over ctx.Done, the response channel and the timeout
SendWait(c, how) ==
    /\ callPc[c] = "wait"
    /\ WaitReady(c, how)
    /\ callResult' = [callResult EXCEPT ![c] =
            IF how # "response" THEN how
            ELSE IF respChan[c] = "data" THEN "response"
            ELSE "upstream disconnected"]
    /\ respChan' = [respChan EXCEPT ![c] = IF how = "response" THEN "empty" ELSE @]
    /\ callPc' = [callPc EXCEPT ![c] = "unregister"]
    /\ UNCHANGED <<routerVars, sessionVars, queueVars, laterVars, connected, messageURL,
                   stream, wasConnected, clientDone, pending, callKey>>

\* a deferred function that deletes nothing
UnregisterNothing(p, k) == p

\* delete(c.pending, requestID)
Unregister(p, k) == [p EXCEPT ![k] = 0]

\* Send returns: the deferred function runs
SendUnregister(c) ==
    /\ callPc[c] = "unregister"
    /\ pending' = Unregister(pending, callKey[c])
    /\ callPc' = [callPc EXCEPT ![c] = "idle"]
    /\ callKey' = [callKey EXCEPT ![c] = 0]
    /\ UNCHANGED <<routerVars, sessionVars, queueVars, laterVars, connected, messageURL,
                   stream, wasConnected, clientDone, respChan, callResult>>

UpstreamNext ==
    \/ \E ok \in BOOLEAN : Connect(ok)
    \/ Disconnect
    \/ EndpointEvent
    \/ \E k \in Keys : MessageEvent(k)
    \/ StreamEnd
    \/ FailPending
    \/ ReaderExit
    \/ \E c \in Calls, k \in Keys, validJSON \in BOOLEAN : SendStart(c, k, validJSON)
    \/ \E c \in Calls : SendRegister(c)
    \/ \E c \in Calls, ok \in BOOLEAN : SendPost(c, ok)
    \/ \E c \in Calls, how \in {"response", "timeout", "canceled"} : SendWait(c, how)
    \/ \E c \in Calls : SendUnregister(c)

-----------------------------------------------------------------------------
(* Policy engine: internal/policy Engine and DecisionCache *)

Evaluators == 1..NumEvaluators
Tools == 1..NumTools
Args == 1..NumArgs

\* a PolicyInput: the tool it names and everything else it carries
PolicyInputs == [tool : Tools, arg : Args]

\* ComputeKey: agent id, tool and capabilities hash; one agent with one
\* capability list in the model, so the key is the tool
ComputeKey(i) == i.tool

NoQuery == [compiled |-> FALSE, mod |-> 0, data |-> 0]
NoPolicyDecision == [kind |-> "none", mod |-> 0, data |-> 0, tool |-> 0, arg |-> 0]
PolicyDisabled == [kind |-> "policy_disabled", mod |-> 0, data |-> 0, tool |-> 0, arg |-> 0]
NoEntry == [present |-> FALSE, dec |-> NoPolicyDecision, expired |-> FALSE]
NoResult == [kind |-> "none", hit |-> FALSE, err |-> FALSE]
NoEval == [input |-> [tool |-> 0, arg |-> 0], dec |-> NoPolicyDecision]

\* NewEngine: no modules, empty data, zero query, empty cache
EngineInit ==
    /\ modules = 0
    /\ policyData = 0
    /\ query = NoQuery
    /\ l2Cache = [k \in Tools |-> NoEntry]
    /\ evPc = [c \in Evaluators |-> "idle"]
    /\ evInput = [c \in Evaluators |-> NoEval.input]
    /\ evDecision = [c \in Evaluators |-> NoPolicyDecision]
    /\ evalResult = [c \in Evaluators |-> NoResult]
    /\ lastEval = NoEval
    /\ freshData = FALSE

\* compileWithData: the prepared query of modules m over data d, kept only
\* when PrepareForEval succeeds
Compile(q, m, d, compiles) ==
    IF compiles THEN [compiled |-> TRUE, mod |-> m, data |-> d] ELSE q

\* evaluatePolicy: the decision is a function of the prepared query and of
\* the whole input
Decide(q, i) == [kind |-> "decision", mod |-> q.mod, data |-> q.data,
                 tool |-> i.tool, arg |-> i.arg]

\* input.session.request_count: part of what an input carries beside its tool
request_count(i) == i.arg

\* get_rate_limit: the agent's limit as the policy data give it (1000 when the
\* data give none; 2 in the model, so that inputs below and at the limit exist)
get_rate_limit == 2

\* rate_limit_ok of the rate-limiting policy
rate_limit_ok(i) == request_count(i) < get_rate_limit

\* allow of a decision, all other rules of the policy passing: the decision
\* was computed for an input within the rate limit
DecisionAllows(dec) ==
    dec.kind = "decision" /\ rate_limit_ok([tool |-> dec.tool, arg |-> dec.arg])

\* LoadPolicies: the modules are stored, then compiled
LoadPolicies(m, compiles) ==
    /\ modules' = m
    /\ query' = Compile(query, m, policyData, compiles)
    /\ lastEval' = NoEval
    /\ UNCHANGED <<notEngine, policyData, l2Cache, evPc, evInput, evDecision,
                   evalResult, freshData>>

\* DecisionCache.Invalidate
Invalidate(cache) == [k \in Tools |-> NoEntry]

\* SetPolicyData: the data is stored, the cache invalidated, and the modules
\* recompiled when there are any
SetPolicyData(d, compiles) ==
    /\ policyData' = d
    /\ l2Cache' = Invalidate(l2Cache)
    /\ query' = IF modules # 0 THEN Compile(query, modules, d, compiles) ELSE query
    /\ freshData' = TRUE
    /\ lastEval' = NoEval
    /\ UNCHANGED <<notEngine, modules, evPc, evInput, evDecision, evalResult>>

\* a Get that never finds anything
CacheGetMiss(cache, key) == [hit |-> FALSE, dec |-> NoPolicyDecision]

\* DecisionCache.Get: the entry when present and not past its expiry
CacheGet(cache, key) ==
    IF cache[key].present /\ ~cache[key].expired
    THEN [hit |-> TRUE, dec |-> cache[key].dec]
    ELSE [hit |-> FALSE, dec |-> NoPolicyDecision]

\* keys with an entry
CacheKeys(cache) == {k \in Tools : cache[k].present}

\* evictOldest, first half: the expired entries go
DropExpired(cache) ==
    [k \in Tools |-> IF cache[k].present /\ cache[k].expired THEN NoEntry ELSE cache[k]]

\* evictOldest, second half: how many entries the loop deletes (it deletes
\* before it compares with maxEntries / 10)
ToRemove == IF maxEntries \div 10 > 1 THEN maxEntries \div 10 ELSE 1

\* the sets of entries evictOldest may delete from a cache still at capacity:
\* the map iteration order decides
Victims(cache) ==
    IF Cardinality(CacheKeys(cache)) < maxEntries THEN {{}}
    ELSE {v \in SUBSET CacheKeys(cache) :
            Cardinality(v) = IF Cardinality(CacheKeys(cache)) < ToRemove
                             THEN Cardinality(CacheKeys(cache)) ELSE ToRemove}

\* DecisionCache.Set with the cache enabled: eviction at capacity, then the
\* entry is stored with a new expiry
CacheSet(cache, key, dec, victims) ==
    LET live == IF Cardinality(CacheKeys(cache)) >= maxEntries
                THEN DropExpired(cache) ELSE cache
        kept == [k \in Tools |-> IF k \in victims THEN NoEntry ELSE live[k]]
    IN [kept EXCEPT ![key] = [present |-> TRUE, dec |-> dec, expired |-> FALSE]]

\* Evaluate, up to the cache lookup: the disabled engine allows at once, a
\* cache hit returns the cached decision
EvalGet(c, i) ==
    /\ evPc[c] = "idle"
    /\ freshData' = FALSE
    /\ IF ~policyEnabled
       THEN /\ evalResult' = [evalResult EXCEPT ![c] =
                                [kind |-> "policy_disabled", hit |-> FALSE, err |-> FALSE]]
            /\ lastEval' = [input |-> i, dec |-> PolicyDisabled]
            /\ UNCHANGED <<evPc, evInput>>
       ELSE LET got == CacheGet(l2Cache, ComputeKey(i)) IN
            IF got.hit
            THEN /\ evalResult' = [evalResult EXCEPT ![c] =
                                     [kind |-> "decision", hit |-> TRUE, err |-> FALSE]]
                 /\ lastEval' = [input |-> i, dec |-> got.dec]
                 /\ UNCHANGED <<evPc, evInput>>
            ELSE /\ evalResult' = [evalResult EXCEPT ![c] = NoResult]
                 /\ lastEval' = NoEval
                 /\ evPc' = [evPc EXCEPT ![c] = "run"]
                 /\ evInput' = [evInput EXCEPT ![c] = i]
    /\ UNCHANGED <<notEngine, modules, policyData, query, l2Cache, evDecision>>

\* Evaluate: evaluatePolicy on the current query; a failure returns the error
\* (a query that was never compiled cannot be evaluated)
EvalRun(c, ok) ==
    /\ evPc[c] = "run"
    /\ IF ok /\ query.compiled
       THEN /\ evDecision' = [evDecision EXCEPT ![c] = Decide(query, evInput[c])]
            /\ evPc' = [evPc EXCEPT ![c] = "set"]
            /\ UNCHANGED <<evalResult, evInput>>
       ELSE /\ evalResult' = [evalResult EXCEPT ![c] =
                                [kind |-> "none", hit |-> FALSE, err |-> TRUE]]
            /\ evPc' = [evPc EXCEPT ![c] = "idle"]
            /\ evInput' = [evInput EXCEPT ![c] = NoEval.input]
            /\ UNCHANGED evDecision
    /\ lastEval' = NoEval
    /\ UNCHANGED <<notEngine, modules, policyData, query, l2Cache, freshData>>

\* Evaluate: the decision is cached and returned
EvalSet(c) ==
    /\ evPc[c] = "set"
    /\ \E victims \in Victims(DropExpired(l2Cache)) :
          l2Cache' = CacheSet(l2Cache, ComputeKey(evInput[c]), evDecision[c], victims)
    /\ evalResult' = [evalResult EXCEPT ![c] =
                        [kind |-> "decision", hit |-> FALSE, err |-> FALSE]]
    /\ lastEval' = [input |-> evInput[c], dec |-> evDecision[c]]
    /\ evPc' = [evPc EXCEPT ![c] = "idle"]
    /\ evInput' = [evInput EXCEPT ![c] = NoEval.input]
    /\ evDecision' = [evDecision EXCEPT ![c] = NoPolicyDecision]
    /\ UNCHANGED <<notEngine, modules, policyData, query, freshData>>

\* the wall clock passes the expiry of an entry
CacheExpire(k) ==
    /\ l2Cache[k].present
    /\ ~l2Cache[k].expired
    /\ l2Cache' = [l2Cache EXCEPT ![k].expired = TRUE]
    /\ lastEval' = NoEval
    /\ UNCHANGED <<notEngine, modules, policyData, query, evPc, evInput, evDecision,
                   evalResult, freshData>>

\* cleanup, on the cache's ticker: the expired entries are deleted
CacheCleanup ==
    /\ \E k \in Tools : l2Cache[k].present /\ l2Cache[k].expired
    /\ l2Cache' = DropExpired(l2Cache)
    /\ lastEval' = NoEval
    /\ UNCHANGED <<notEngine, modules, policyData, query, evPc, evInput, evDecision,
                   evalResult, freshData>>

\* Engine.IsReady
IsReady == IF ~policyEnabled THEN TRUE ELSE modules # 0

EngineNext ==
    \/ \E m \in 0..NumModules, compiles \in BOOLEAN : LoadPolicies(m, compiles)
    \/ \E d \in 1..NumData, compiles \in BOOLEAN : SetPolicyData(d, compiles)
    \/ \E c \in Evaluators, i \in PolicyInputs : EvalGet(c, i)
    \/ \E c \in Evaluators, ok \in BOOLEAN : EvalRun(c, ok)
    \/ \E c \in Evaluators : EvalSet(c)
    \/ \E k \in Tools : CacheExpire(k)
    \/ CacheCleanup

-----------------------------------------------------------------------------
(* Audit writer: internal/audit Writer *)

Range(q) == {q[n] : n \in 1..Len(q)}

\* Write calls that have returned
Accepted == (1..nextRec) \ (IF wPc = "idle" THEN {} ELSE {nextRec})

\* NewWriter: empty buffer, flush loop not started
AuditInit ==
    /\ buffer = <<>>
    /\ bufferMu = "free"
    /\ metricMu = "free"
    /\ flushChan = FALSE
    /\ cancelled = FALSE
    /\ nextRec = 0
    /\ wPc = "idle"
    /\ flPc = "off"
    /\ final = FALSE
    /\ batch = <<>>
    /\ insertOk = FALSE
    /\ written = 0
    /\ dropped = 0
    /\ flushes = 0
    /\ stored = {}
    /\ lost = {}
    /\ stPc = "idle"
    /\ stopPc = "idle"
    /\ atStop = {}

\* Start: the flush loop goroutine is started (Application.Start, before the
\* transport)
AuditStart ==
    /\ flPc = "off"
    /\ stopPc = "idle"
    /\ flPc' = "select"
    /\ UNCHANGED <<notAudit, buffer, bufferMu, metricMu, flushChan,
                   cancelled, nextRec, wPc, final, batch, insertOk, written, dropped,
                   flushes, stored, lost, stPc, stopPc, atStop>>

\* Write under bufferMu: with room the record is appended; at capacity the
\* flush is signalled and Write goes for metricMu, still holding bufferMu
AuditWrite ==
    /\ wPc = "idle"
    /\ flPc # "off"
    /\ nextRec < MaxWrites
    /\ bufferMu = "free"
    /\ nextRec' = nextRec + 1
    /\ IF Len(buffer) >= bufferMax
       THEN /\ bufferMu' = "write"
            /\ flushChan' = TRUE
            /\ wPc' = "drop"
            /\ UNCHANGED buffer
       ELSE /\ buffer' = Append(buffer, nextRec + 1)
            /\ UNCHANGED <<bufferMu, flushChan, wPc>>
    /\ UNCHANGED <<notAudit, metricMu, cancelled, flPc, final, batch,
                   insertOk, written, dropped, flushes, stored, lost, stPc, stopPc,
                   atStop>>

\* a Write that drops the oldest record without counting it
DropUncounted(d) == d

\* w.dropped++ of Write
DropCounted(d) == d + 1

\* Write at capacity: the oldest record is dropped and counted under metricMu,
\* the new one appended, bufferMu released
AuditWriteDrop ==
    /\ wPc = "drop"
    /\ metricMu = "free"
    /\ buffer' = Append(Tail(buffer), nextRec)
    /\ dropped' = DropCounted(dropped)
    /\ lost' = lost \cup {Head(buffer)}
    /\ bufferMu' = "free"
    /\ wPc' = "idle"
    /\ UNCHANGED <<notAudit, metricMu, flushChan, cancelled, nextRec, flPc,
                   final, batch, insertOk, written, flushes, stored, stPc, stopPc,
                   atStop>>

\* flushLoop: the select takes one of its ready cases
FlushWake(reason) ==
    /\ flPc = "select"
    /\ reason = "chan" => flushChan
    /\ reason = "done" => cancelled
    /\ flushChan' = IF reason = "chan" THEN FALSE ELSE flushChan
    /\ final' = (reason = "done")
    /\ flPc' = "flush"
    /\ UNCHANGED <<notAudit, buffer, bufferMu, metricMu, cancelled, nextRec,
                   wPc, batch, insertOk, written, dropped, flushes, stored, lost,
                   stPc, stopPc, atStop>>

\* where flushLoop goes when a flush has returned
AfterFlush(isFinal) == IF isFinal THEN "exited" ELSE "select"

\* flush under bufferMu: nothing to do on an empty buffer, else the buffer is
\* swapped for a new one
FlushSwap ==
    /\ flPc = "flush"
    /\ bufferMu = "free"
    /\ IF buffer = <<>>
       THEN /\ flPc' = AfterFlush(final)
            /\ UNCHANGED <<buffer, batch>>
       ELSE /\ batch' = buffer
            /\ buffer' = <<>>
            /\ flPc' = "insert"
    /\ UNCHANGED <<notAudit, bufferMu, metricMu, flushChan, cancelled,
                   nextRec, wPc, final, insertOk, written, dropped, flushes, stored,
                   lost, stPc, stopPc, atStop>>

\* flush: InsertBatch, one transaction: all of the batch or nothing
FlushInsert(ok) ==
    /\ flPc = "insert"
    /\ insertOk' = ok
    /\ stored' = IF ok THEN stored \cup Range(batch) ELSE stored
    /\ flPc' = "count"
    /\ UNCHANGED <<notAudit, buffer, bufferMu, metricMu, flushChan,
                   cancelled, nextRec, wPc, final, batch, written, dropped, flushes,
                   lost, stPc, stopPc, atStop>>

\* a failed flush counted as one drop
CountDroppedOnce(d, records) == d + 1

\* w.dropped += int64(len(records))
CountDropped(d, records) == d + Len(records)

\* flush under metricMu: the batch is counted as written or as dropped
FlushCount ==
    /\ flPc = "count"
    /\ metricMu = "free"
    /\ IF insertOk
       THEN /\ written' = written + Len(batch)
            /\ flushes' = flushes + 1
            /\ UNCHANGED <<dropped, lost>>
       ELSE /\ dropped' = CountDropped(dropped, batch)
            /\ lost' = lost \cup Range(batch)
            /\ UNCHANGED <<written, flushes>>
    /\ batch' = <<>>
    /\ insertOk' = FALSE
    /\ flPc' = AfterFlush(final)
    /\ UNCHANGED <<notAudit, buffer, bufferMu, metricMu, flushChan,
                   cancelled, nextRec, wPc, final, stored, stPc, stopPc, atStop>>

\* Stats: metricMu is taken first
StatsLock ==
    /\ stPc = "idle"
    /\ metricMu = "free"
    /\ metricMu' = "stats"
    /\ stPc' = "buffer"
    /\ UNCHANGED <<notAudit, buffer, bufferMu, flushChan, cancelled,
                   nextRec, wPc, flPc, final, batch, insertOk, written, dropped,
                   flushes, stored, lost, stopPc, atStop>>

\* Stats: bufferMu is taken for the buffer length, then all is released
StatsRead ==
    /\ stPc = "buffer"
    /\ bufferMu = "free"
    /\ metricMu' = "free"
    /\ stPc' = "idle"
    /\ UNCHANGED <<notAudit, buffer, bufferMu, flushChan, cancelled,
                   nextRec, wPc, flPc, final, batch, insertOk, written, dropped,
                   flushes, stored, lost, stopPc, atStop>>

\* Stop: the context is cancelled (Application.Stop calls Stop once)
AuditStop ==
    /\ stopPc = "idle"
    /\ cancelled' = TRUE
    /\ atStop' = Accepted
    /\ stopPc' = "wait"
    /\ UNCHANGED <<notAudit, buffer, bufferMu, metricMu, flushChan, nextRec,
                   wPc, flPc, final, batch, insertOk, written, dropped, flushes,
                   stored, lost, stPc>>

\* flushLoop has returned without its final flush
StopWaitEarly == flPc \in {"off", "exited", "select"}

\* wg.Wait returns: no flush loop is running
StopWait == flPc \in {"off", "exited"}

\* Stop: wg.Wait has returned
AuditStopWaited ==
    /\ stopPc = "wait"
    /\ StopWait
    /\ stopPc' = "stats"
    /\ UNCHANGED <<notAudit, buffer, bufferMu, metricMu, flushChan,
                   cancelled, nextRec, wPc, flPc, final, batch, insertOk, written,
                   dropped, flushes, stored, lost, stPc, atStop>>

\* Stop: its Stats call takes metricMu
AuditStopStatsLock ==
    /\ stopPc = "stats"
    /\ metricMu = "free"
    /\ metricMu' = "stop"
    /\ stopPc' = "buffer"
    /\ UNCHANGED <<notAudit, buffer, bufferMu, flushChan, cancelled,
                   nextRec, wPc, flPc, final, batch, insertOk, written, dropped,
                   flushes, stored, lost, stPc, atStop>>

\* Stop: its Stats call takes bufferMu, releases all, and Stop returns
AuditStopReturn ==
    /\ stopPc = "buffer"
    /\ bufferMu = "free"
    /\ metricMu' = "free"
    /\ stopPc' = "returned"
    /\ UNCHANGED <<notAudit, buffer, bufferMu, flushChan, cancelled,
                   nextRec, wPc, flPc, final, batch, insertOk, written, dropped,
                   flushes, stored, lost, stPc, atStop>>

AuditNext ==
    \/ AuditStart
    \/ AuditWrite
    \/ AuditWriteDrop
    \/ \E reason \in {"tick", "chan", "done"} : FlushWake(reason)
    \/ FlushSwap
    \/ \E ok \in BOOLEAN : FlushInsert(ok)
    \/ FlushCount
    \/ StatsLock
    \/ StatsRead
    \/ AuditStop
    \/ AuditStopWaited
    \/ AuditStopStatsLock
    \/ AuditStopReturn

-----------------------------------------------------------------------------
(* Transport servers: internal/transport/sse Server and internal/transport/stdio
   Server share their lifecycle; `transport` says which one is configured *)

Stoppers == 1..NumStoppers

\* NewServer: not started, done open
ServerInit ==
    /\ srvStarted = FALSE
    /\ srvDone = FALSE
    /\ srvLoop = "none"
    /\ srvSession = "none"
    /\ srvStopPc = [c \in Stoppers |-> "idle"]
    /\ srvResult = [c \in Stoppers |-> "none"]
    /\ srvPanic = FALSE

\* Start: refused when started; else started is set, then the sse server
\* listens and serves, the stdio server creates its session and starts readLoop
\* (ok: net.Listen, or Manager.Create, succeeded)
ServerStart(ok) ==
    /\ ~srvPanic
    /\ ~srvStarted
    /\ srvStarted' = TRUE
    /\ srvLoop' = IF ok THEN "running" ELSE srvLoop
    /\ srvSession' = IF ok /\ transport = "stdio" THEN "open" ELSE srvSession
    /\ UNCHANGED <<notServer, srvDone, srvStopPc, srvResult, srvPanic>>

\* readLoop returns: end of input, context cancelled, or done found closed
ReadLoopEnd ==
    /\ ~srvPanic
    /\ transport = "stdio"
    /\ srvLoop = "running"
    /\ srvLoop' = "ended"
    /\ UNCHANGED <<notServer, srvStarted, srvDone, srvSession, srvStopPc, srvResult,
                   srvPanic>>

\* a Stop that goes on whatever started says
StopAlways(started) == FALSE

\* Stop returns nil at once when the server is not started
StopIsNoop(started) == ~started

\* Stop under mu: nothing to do when not started, else started is cleared
ServerStop(c) ==
    /\ ~srvPanic
    /\ srvStopPc[c] = "idle"
    /\ IF StopIsNoop(srvStarted)
       THEN /\ srvResult' = [srvResult EXCEPT ![c] = "nil"]
            /\ UNCHANGED <<srvStarted, srvStopPc>>
       ELSE /\ srvStarted' = FALSE
            /\ srvStopPc' = [srvStopPc EXCEPT ![c] = "signal"]
            /\ srvResult' = [srvResult EXCEPT ![c] = "none"]
    /\ UNCHANGED <<notServer, srvDone, srvLoop, srvSession, srvPanic>>

\* Stop: close(s.done), which panics on a closed channel; the stdio server
\* then closes and deletes its session
ServerStopSignal(c) ==
    /\ ~srvPanic
    /\ srvStopPc[c] = "signal"
    /\ IF srvDone
       THEN /\ srvPanic' = TRUE
            /\ UNCHANGED <<srvDone, srvSession, srvStopPc>>
       ELSE /\ srvDone' = TRUE
            /\ srvSession' = IF srvSession = "open" THEN "closed" ELSE srvSession
            /\ srvStopPc' = [srvStopPc EXCEPT ![c] = "wait"]
            /\ UNCHANGED srvPanic
    /\ UNCHANGED <<notServer, srvStarted, srvLoop, srvResult>>

\* Stop: the sse server shuts the HTTP server down, an expired deadline is
\* returned as an error; the stdio server waits for readLoop or for the
\* deadline and returns nil
ServerStopWait(c, intime) ==
    /\ ~srvPanic
    /\ srvStopPc[c] = "wait"
    /\ (transport = "stdio" /\ intime) => srvLoop # "running"
    /\ srvLoop' = IF transport = "sse" /\ srvLoop = "running" THEN "ended" ELSE srvLoop
    /\ srvResult' = [srvResult EXCEPT ![c] =
                       IF transport = "sse" /\ ~intime THEN "error" ELSE "nil"]
    /\ srvStopPc' = [srvStopPc EXCEPT ![c] = "idle"]
    /\ UNCHANGED <<notServer, srvStarted, srvDone, srvSession, srvPanic>>

ServerNext ==
    \/ \E ok \in BOOLEAN : ServerStart(ok)
    \/ ReadLoopEnd
    \/ \E c \in Stoppers : ServerStop(c)
    \/ \E c \in Stoppers : ServerStopSignal(c)
    \/ \E c \in Stoppers, intime \in BOOLEAN : ServerStopWait(c, intime)

-----------------------------------------------------------------------------
(* Session manager lifecycle: Manager.Stop *)

ManagerInit ==
    /\ managerDone = FALSE
    /\ mgrStopPc = [c \in Callers |-> "idle"]

\* Stop: close(m.done), which panics on a closed channel
ManagerStop(c) ==
    /\ ~panicked
    /\ mgrStopPc[c] = "idle"
    /\ IF managerDone
       THEN /\ panicked' = TRUE
            /\ UNCHANGED <<managerDone, mgrStopPc>>
       ELSE /\ managerDone' = TRUE
            /\ mgrStopPc' = [mgrStopPc EXCEPT ![c] = "range"]
            /\ UNCHANGED panicked
    /\ UNCHANGED <<notManager, sessions, closed, stale, activeCount, totalCreated,
                   delPc, delId, sweepPc, sweepKey, sweepTodo, createResult,
                   lastDeleted>>

\* Stop: every session in the map is closed and deleted from the map;
\* activeCount is left as it is
ManagerStopRange(c) ==
    /\ ~panicked
    /\ mgrStopPc[c] = "range"
    /\ closed' = closed \cup sessions
    /\ sessions' = {}
    /\ mgrStopPc' = [mgrStopPc EXCEPT ![c] = "idle"]
    /\ UNCHANGED <<notManager, managerDone, stale, activeCount, totalCreated,
                   delPc, delId, sweepPc, sweepKey, sweepTodo, createResult,
                   lastDeleted, panicked>>

ManagerNext ==
    \/ CapacityNext
    \/ \E c \in Callers : ManagerStop(c)
    \/ \E c \in Callers : ManagerStopRange(c)

-----------------------------------------------------------------------------
(* Application: cmd/proxy Application.Start and Application.Stop *)

AppInit ==
    /\ appPc = "new"
    /\ ready = FALSE
    /\ obsStopped = FALSE
    /\ storeClosed = FALSE
    /\ stopLog = <<>>

\* the steps of Application.Stop, in the order of its statements
StopOrder == <<"health", "obs", "transport", "upstream", "sessions", "audit", "store">>

\* a Stop that closes the store before it stops the audit writer
StepAfterStoreFirst(step) ==
    CASE step = "health" -> "obs"
      [] step = "obs" -> "transport"
      [] step = "transport" -> "upstream"
      [] step = "upstream" -> "sessions"
      [] step = "sessions" -> "store"
      [] step = "store" -> "audit"
      [] step = "audit" -> "stopped"

\* Application.Stop: the statement that follows each step
StepAfter(step) ==
    CASE step = "health" -> "obs"
      [] step = "obs" -> "transport"
      [] step = "transport" -> "upstream"
      [] step = "upstream" -> "sessions"
      [] step = "sessions" -> "audit"
      [] step = "audit" -> "store"
      [] step = "store" -> "stopped"

\* the call a step of Application.Stop makes has returned
StepReturned(step) ==
    CASE step = "obs" -> TRUE
      [] step = "transport" -> srvStopPc[1] = "idle" /\ srvResult[1] # "none"
      [] step = "upstream" -> ~connected
      [] step = "sessions" -> managerDone /\ mgrStopPc[1] = "idle"
      [] step = "audit" -> stopPc = "returned"
      [] step = "store" -> TRUE

\* Application.Start with the sse transport, up to SetReady(true): the
\* policies are loaded (data first, then the modules), the audit writer and
\* the session manager started, the upstream connected or not, the transport
\* started; a failure of the policy load or of the transport ends the process
AppStart(upstreamOk) ==
    /\ appPc = "new"
    /\ policyData' = 1
    /\ modules' = 1
    /\ query' = Compile(query, 1, 1, TRUE)
    /\ l2Cache' = Invalidate(l2Cache)
    /\ freshData' = TRUE
    /\ lastEval' = NoEval
    /\ flPc' = "select"
    /\ connected' = upstreamOk
    /\ stream' = IF upstreamOk THEN "open" ELSE stream
    /\ srvStarted' = TRUE
    /\ srvLoop' = "running"
    /\ ready' = TRUE
    /\ appPc' = "running"
    /\ UNCHANGED <<routerVars, sessionVars, queueVars, managerVars, poolVars, stdioVars,
                   messageURL, wasConnected, clientDone, pending, callPc, callKey,
                   respChan, callResult,
                   evPc, evInput, evDecision, evalResult,
                   buffer, bufferMu, metricMu, flushChan, cancelled, nextRec, wPc,
                   final, batch, insertOk, written, dropped, flushes, stored, lost,
                   stPc, stopPc, atStop,
                   srvDone, srvSession, srvStopPc, srvResult, srvPanic,
                   obsStopped, storeClosed, stopLog>>

\* Application.Stop is called: SetReady(false)
AppStop ==
    /\ appPc = "running"
    /\ ready' = FALSE
    /\ stopLog' = <<"health">>
    /\ appPc' = StepAfter("health")
    /\ UNCHANGED <<coreVars, engineVars, auditVars, serverVars, managerVars, poolVars,
                   stdioVars, obsStopped, storeClosed>>

\* the call of the current step has returned and Stop goes on to its next
\* statement; the observability server and the store are stopped in one step
AppReturn ==
    /\ appPc \in Range(StopOrder)
    /\ StepReturned(appPc)
    /\ stopLog' = Append(stopLog, appPc)
    /\ obsStopped' = (obsStopped \/ appPc = "obs")
    /\ storeClosed' = (storeClosed \/ appPc = "store")
    /\ appPc' = StepAfter(appPc)
    /\ UNCHANGED <<coreVars, engineVars, auditVars, serverVars, managerVars, poolVars,
                   stdioVars, ready>>

\* app.transport.Stop(ctx)
AppTransportStop ==
    /\ appPc = "transport"
    /\ \/ srvResult[1] = "none" /\ ServerStop(1)
       \/ ServerStopSignal(1)
       \/ \E intime \in BOOLEAN : ServerStopWait(1, intime)

\* app.upstreamClient.Disconnect()
AppDisconnect ==
    /\ appPc = "upstream"
    /\ Disconnect

\* app.sessionManager.Stop()
AppManagerStop ==
    /\ appPc = "sessions"
    /\ \/ ~managerDone /\ ManagerStop(1)
       \/ ManagerStopRange(1)

\* app.auditWriter.Stop()
AppAuditStop ==
    /\ appPc = "audit"
    /\ \/ AuditStop
       \/ AuditStopWaited
       \/ AuditStopStatsLock
       \/ AuditStopReturn

\* what goes on beside Application.Stop: requests still being audited, the
\* flush loop (InsertBatch fails on a closed store), the upstream reader
AppBackground ==
    /\ appPc # "new"
    /\ \/ AuditWrite
       \/ AuditWriteDrop
       \/ \E reason \in {"tick", "chan", "done"} : FlushWake(reason)
       \/ FlushSwap
       \/ \E ok \in BOOLEAN : (ok => ~storeClosed) /\ FlushInsert(ok)
       \/ FlushCount
       \/ StreamEnd
       \/ FailPending
       \/ ReaderExit

AppNext ==
    \/ \E upstreamOk \in BOOLEAN : AppStart(upstreamOk)
    \/ AppStop
    \/ AppReturn
    \/ AppTransportStop
    \/ AppDisconnect
    \/ AppManagerStop
    \/ AppAuditStop
    \/ AppBackground

-----------------------------------------------------------------------------
(* Specifications *)

\* the configuration cmd/proxy runs with when the session manager is looked at alone
RouterAtRest ==
    /\ policyEnabled = TRUE
    /\ policyMode = "enforce"
    /\ upstreamState = "connected"
    /\ auditEnabled = TRUE
    /\ transport = "sse"
    /\ RouterIdle

-----------------------------------------------------------------------------
(* Request context pool: internal/router/types.go *)

\* values generateRequestID returns
RequestIDs == {"req_0a1b2c3d", "req_4e5f6a7b"}

\* requestContextPool: New makes a zero RequestContext; nothing is held
PoolInit ==
    /\ pooled = NoRequestContext
    /\ ctxHeld = FALSE
    /\ ctxWas = NoRequestContext

\* the messages fed to Route over the pool: the two that are no JSON-RPC
\* request, and requests of a method of each handler with every shape of params
PoolMessages ==
    {m \in Messages :
        \/ m.shape # "json"
        \/ /\ m.jsonrpc = "2.0"
           /\ m.id \in {NullID, IdName(1)}
           /\ m.method \in {"tools/call", "resources/read", "tools/list", "ping"}}

\* sync.Pool.Get: the object lying in the pool, or a new one
PoolGet(fromPool) == IF fromPool THEN pooled ELSE NoRequestContext

\* an initialisation that leaves the token and the tool of the object alone
NewRequestContextKeeping(obj, r, rid) ==
    [obj EXCEPT !.RequestID = rid, !.Method = r.Method, !.ResourceURI = "",
                !.Config = IF r.Method \in RegisteredMethods
                           THEN MethodRegistry(r.Method)
                           ELSE [Handler |-> HandlerPassthrough, LogLevel |-> LogMetadata]]

\* NewRequestContextAt on the object the pool handed out: the assignments of
\* lines 252-270
NewRequestContextOn(obj, r, rid) ==
    [obj EXCEPT !.RequestID = rid, !.Method = r.Method, !.Tool = "", !.ResourceURI = "",
                !.AgentFactsToken = "",
                !.Config = IF r.Method \in RegisteredMethods
                           THEN MethodRegistry(r.Method)
                           ELSE [Handler |-> HandlerPassthrough, LogLevel |-> LogMetadata]]

\* Route, lines 64-93, on a pooled context: a message that does not parse
\* returns before any context is taken; otherwise the context is taken from
\* the pool, initialised and filled in
PoolRouteParse(m, fromPool, rid) ==
    /\ pc = "idle"
    /\ msg' = m
    /\ LET p == Parse(m) IN
       IF ~p.ok
       THEN /\ req' = NoRequest
            /\ reqCtx' = NoRequestContext
            /\ response' = FromParseError(p, NullID)
            /\ pc' = "return"
            /\ UNCHANGED poolVars
       ELSE LET e == extractRequestDetails(p.req,
                         NewRequestContextOn(PoolGet(fromPool), p.req, rid))
            IN /\ req' = p.req
               /\ ctxHeld' = TRUE
               /\ ctxWas' = PoolGet(fromPool)
               /\ pooled' = NoRequestContext
               /\ IF ~e.err.ok
                  THEN /\ reqCtx' = e.ctx
                       /\ response' = FromParseError(e.err, p.req.ID)
                       /\ pc' = "return"
                  ELSE /\ reqCtx' = ExtractMeta(e.ctx, p.req.Params)
                       /\ response' = NoResponse
                       /\ pc' = "classify"
    /\ UNCHANGED <<configVars, decision, routeErr, evalOutcome, upOutcome, evalCalls,
                   upstreamCalls, auditCalls, auditRows, outbound, sessionVars, queueVars,
                   upstreamVars, engineVars, auditVars, serverVars, managerVars, appVars,
                   stdioVars>>

\* Route returns: the deferred Release puts the context back into the pool
\* with the fields it has, and the transport handles what Route returned
PoolRouteReturn(accepted) ==
    /\ pc = "return"
    /\ outbound' = Deliver(transport, msg, response, routeErr, accepted)
    /\ pc' = "done"
    /\ pooled' = IF ctxHeld THEN reqCtx ELSE pooled
    /\ ctxHeld' = FALSE
    /\ ctxWas' = NoRequestContext
    /\ UNCHANGED <<configVars, msg, req, reqCtx, decision, response, routeErr, evalOutcome,
                   upOutcome, evalCalls, upstreamCalls, auditCalls, auditRows, sessionVars,
                   queueVars, upstreamVars, engineVars, auditVars, serverVars, managerVars,
                   appVars, stdioVars>>

PoolNext ==
    \/ \E m \in PoolMessages, fromPool \in BOOLEAN, rid \in RequestIDs :
          PoolRouteParse(m, fromPool, rid)
    \/ RouteClassify
    \/ \E raw \in RawOutcomes : RouteEvaluate(raw)
    \/ \E up \in BOOLEAN : RouteForward(up)
    \/ RouteAudit
    \/ \E accepted \in BOOLEAN : PoolRouteReturn(accepted)
    \/ TransportNext

-----------------------------------------------------------------------------
(* stdio transport: internal/transport/stdio reader.go and readLoop *)

\* a line of stdin: empty, not valid JSON, valid JSON, or longer than the
\* scanner's maximum token size (DefaultMaxMessageSize), its first
\* DefaultMaxMessageSize bytes being valid JSON or not
LineKinds == {"blank", "badjson", "json", "toolong", "toolongjson"}

\* the finite input streams
InputStreams == UNION {[1..n -> LineKinds] : n \in 0..MaxLines}

\* lines readLoop may write before the model stops following it
MaxOut == MaxLines + 2

\* NewServer: nothing read, nothing written, the loop about to start
StdioInit ==
    /\ input = <<>>
    /\ consumed = <<>>
    /\ scanErr = "nil"
    /\ output = <<>>
    /\ rlPc = "loop"

\* Reader.ReadMessage on the lines in and the scanner's state: what it
\* returns, the lines left, the lines the scanner took, the scanner's state.
\* Empty lines are skipped. A line over the maximum token size stops the
\* scanner with ErrTooLong, its buffer full ("fullBad", "fullJSON"); the next
\* Scan hands out the buffer as a last token and empties it ("shut"), and
\* from then on Scan returns false and Err returns ErrTooLong on every call
RECURSIVE ReadMessage(_, _)
ReadMessage(in, scanner) ==
    IF scanner = "shut"
    THEN [kind |-> "error", rest |-> in, took |-> <<>>, scanner |-> "shut"]
    ELSE IF scanner = "fullBad"
    THEN [kind |-> "error", rest |-> in, took |-> <<>>, scanner |-> "shut"]
    ELSE IF scanner = "fullJSON"
    THEN [kind |-> "msg", rest |-> in, took |-> <<>>, scanner |-> "shut"]
    ELSE IF in = <<>>
    THEN [kind |-> "eof", rest |-> in, took |-> <<>>, scanner |-> "nil"]
    ELSE IF Head(in) = "toolong"
    THEN [kind |-> "error", rest |-> Tail(in), took |-> <<"toolong">>, scanner |-> "fullBad"]
    ELSE IF Head(in) = "toolongjson"
    THEN [kind |-> "error", rest |-> Tail(in), took |-> <<"toolongjson">>,
          scanner |-> "fullJSON"]
    ELSE IF Head(in) = "blank"
    THEN LET r == ReadMessage(Tail(in), "nil") IN [r EXCEPT !.took = <<"blank">> \o @]
    ELSE IF Head(in) = "badjson"
    THEN [kind |-> "error", rest |-> Tail(in), took |-> <<"badjson">>, scanner |-> "nil"]
    ELSE [kind |-> "msg", rest |-> Tail(in), took |-> <<"json">>, scanner |-> "nil"]

\* the line readLoop writes for what ReadMessage and the handler returned:
\* writeError(nil, -32700) on a read error, writeError(id, -32603) on a
\* handler error, the handler's response when it is not nil
LoopWrites(kind, h) ==
    IF kind = "error"
    THEN <<[kind |-> "error", code |-> CodeParseError, id |-> NullID]>>
    ELSE IF kind = "msg" /\ h = "error"
    THEN <<[kind |-> "error", code |-> CodeInternalError, id |-> IdName(1)]>>
    ELSE IF kind = "msg" /\ h = "response"
    THEN <<[kind |-> "reply", code |-> 0, id |-> IdName(1)]>>
    ELSE <<>>

\* readLoop, one turn with neither done nor the context closed: ReadMessage,
\* then the end of the loop on io.EOF, an error line, or the handler and its
\* response
ReadLoopTurn(h) ==
    /\ rlPc = "loop"
    /\ Len(output) < MaxOut
    /\ LET r == ReadMessage(input, scanErr) IN
        /\ input' = r.rest
        /\ consumed' = consumed \o r.took
        /\ scanErr' = r.scanner
        /\ output' = output \o LoopWrites(r.kind, h)
        /\ rlPc' = IF r.kind = "eof" THEN "exited" ELSE "loop"
    /\ UNCHANGED <<coreVars, engineVars, auditVars, serverVars, managerVars, appVars,
                   poolVars>>

\* readLoop finds done closed or the context cancelled and returns
ReadLoopStopped ==
    /\ rlPc = "loop"
    /\ rlPc' = "stopped"
    /\ UNCHANGED <<coreVars, engineVars, auditVars, serverVars, managerVars, appVars,
                   poolVars, input, consumed, scanErr, output>>

StdioNext ==
    \/ \E h \in {"response", "nil", "error"} : ReadLoopTurn(h)
    \/ ReadLoopStopped

\* the router under every configuration, everything else as constructed
Init == RouterInit /\ SessionInit /\ QueueInit /\ UpstreamInit /\ EngineInit /\ AuditInit
       /\ ServerInit /\ ManagerInit /\ AppInit /\ PoolInit /\ StdioInit

\* everything as constructed, the router at rest
InitSessions == RouterAtRest /\ SessionInit /\ QueueInit /\ UpstreamInit /\ EngineInit /\ AuditInit
       /\ ServerInit /\ ManagerInit /\ AppInit /\ PoolInit /\ StdioInit

\* NewEngine: an empty Mode becomes "enforce", any other string is kept
NewEngineMode(m) == IF m = "" THEN "enforce" ELSE m

\* Mode strings an EngineConfig is built with: the two that config.validate
\* admits, the empty string, and one that is neither
EngineConfigModes == {"", "enforce", "audit", "monitor"}

\* the router behind an engine made by NewEngine from any EngineConfig
InitAnyMode ==
    /\ policyEnabled \in BOOLEAN
    /\ policyMode \in {NewEngineMode(m) : m \in EngineConfigModes}
    /\ upstreamState \in {"none", "disconnected", "connected"}
    /\ auditEnabled \in BOOLEAN
    /\ transport \in {"stdio", "sse"}
    /\ RouterIdle
    /\ SessionInit /\ QueueInit /\ UpstreamInit /\ EngineInit /\ AuditInit
       /\ ServerInit /\ ManagerInit /\ AppInit /\ PoolInit /\ StdioInit

RouterSpec == Init /\ [][RouterNext]_vars

RouterAnyModeSpec == InitAnyMode /\ [][RouterNext]_vars

PoolSpec == InitSessions /\ [][PoolNext]_vars

\* the stdio read loop in front of every finite input stream
InitStdio ==
    /\ RouterAtRest
    /\ SessionInit /\ QueueInit /\ UpstreamInit /\ EngineInit /\ AuditInit
    /\ ServerInit /\ ManagerInit /\ AppInit /\ PoolInit
    /\ input \in InputStreams
    /\ consumed = <<>>
    /\ scanErr = "nil"
    /\ output = <<>>
    /\ rlPc = "loop"

StdioSpec == InitStdio /\ [][StdioNext]_vars

SessionSpec == InitSessions /\ [][SessionNext]_vars

CapacitySpec == InitSessions /\ [][CapacityNext]_vars

QueueSpec == InitSessions /\ [][QueueNext]_vars

UpstreamSpec == InitSessions /\ [][UpstreamNext]_vars

\* the upstream client with what its code guarantees to happen: the select's
\* timer fires (time.After of the configured timeout), the POST ends (the
\* http client carries the same timeout), and the bookkeeping under
\* pendingMu is done
UpstreamLiveSpec ==
    /\ InitSessions
    /\ [][UpstreamNext]_vars
    /\ \A c \in Calls :
          /\ WF_vars(SendRegister(c))
          /\ WF_vars(\E ok \in BOOLEAN : SendPost(c, ok))
          /\ WF_vars(SendWait(c, "timeout"))
          /\ WF_vars(SendUnregister(c))

\* the engine enabled or disabled by configuration, everything else at rest
InitEngine ==
    /\ policyEnabled \in BOOLEAN
    /\ policyMode = "enforce"
    /\ upstreamState = "connected"
    /\ auditEnabled = TRUE
    /\ transport = "sse"
    /\ RouterIdle
    /\ SessionInit /\ QueueInit /\ UpstreamInit /\ EngineInit /\ AuditInit
       /\ ServerInit /\ ManagerInit /\ AppInit /\ PoolInit /\ StdioInit

EngineSpec == InitEngine /\ [][EngineNext]_vars

AuditSpec == InitSessions /\ [][AuditNext]_vars

\* either transport configured, everything else at rest
InitServer ==
    /\ policyEnabled = TRUE
    /\ policyMode = "enforce"
    /\ upstreamState = "connected"
    /\ auditEnabled = TRUE
    /\ transport \in {"stdio", "sse"}
    /\ RouterIdle
    /\ SessionInit /\ QueueInit /\ UpstreamInit /\ EngineInit /\ AuditInit
    /\ ServerInit /\ ManagerInit /\ AppInit /\ PoolInit /\ StdioInit

ServerSpec == InitServer /\ [][ServerNext]_vars

ManagerSpec == InitSessions /\ [][ManagerNext]_vars

AppSpec == InitSessions /\ [][AppNext]_vars

-----------------------------------------------------------------------------
(* Properties of the session manager (SessionSpec) *)

\* C10: under any interleaving of Create, Delete and the sweep, the number of live
\* sessions the manager holds never exceeds the configured maximum.
C10_LiveSessionsWithinMax == Cardinality(sessions \ closed) <= maxSessions

\* Delete calls that have taken a session out of the map and not yet returned
DeletesInFlight == {c \in Callers : delPc[c] \in {"close", "decrement"}}

\* C11: whenever a sweep completes, activeCount equals the number of live entries of
\* the session map (stated for sweeps that complete while no Delete is under way and
\* no closed session is left in the map).
C11_CountMatchesAfterSweep ==
    [][(/\ sweepPc = "range"
        /\ sweepPc' = "idle"
        /\ DeletesInFlight' = {}
        /\ sessions' \cap closed' = {})
          => activeCount' = Cardinality(sessions')]_vars

\* C12: once a Delete(s) call has returned, Get(s) finds nothing; once every Delete(s)
\* call made so far has returned, s is closed; and no call has panicked.
C12_DeleteRemovesAndCloses ==
    /\ ~panicked
    /\ lastDeleted # 0 =>
         /\ lastDeleted \notin sessions
         /\ ~GetFinds(lastDeleted)
         /\ (\A c \in DeletesInFlight : delId[c] # lastDeleted) => lastDeleted \in closed

C12_Witness ==
    /\ lastDeleted # 0
    /\ lastDeleted \in closed
    /\ DeletesInFlight = {}
    /\ activeCount = 0
    /\ \E c \in Callers : delPc[c] = "load" /\ delId[c] # lastDeleted

-----------------------------------------------------------------------------
(* Properties of Create and Delete (CapacitySpec) *)

-----------------------------------------------------------------------------
(* Properties of the session queue (QueueSpec) *)

\* C14: once Close has returned, every SendMessage returns false and enqueues
\* nothing, also when the queue has room.
C14_NoSendAfterClose ==
    lastSend.closed => (~lastSend.ok /\ ~lastSend.enqueued)

\* C15: SendMessage never blocks and never panics; on a full queue it returns false
\* and enqueues nothing; once a consumer has drained a message after that, the next
\* SendMessage on the open session returns true.
C15_SendNeverBlocks ==
    /\ ~panicked
    /\ lastSend.phase # "blocked"
    /\ Len(MessageChan) <= QueueCap
    /\ (lastSend.phase # "none" /\ ~lastSend.closed /\ lastSend.len >= QueueCap)
         => (~lastSend.ok /\ ~lastSend.enqueued)
    /\ (lastSend.phase # "none" /\ ~lastSend.closed /\ lastSend.len < QueueCap)
         => (lastSend.ok /\ lastSend.enqueued)
    /\ (lastSend.phase = "drained" /\ ~lastSend.closed) => lastSend.ok

C15_Witness ==
    /\ lastSend.phase = "drained"
    /\ lastSend.ok
    /\ lastSend.len = QueueCap - 1
    /\ ~Done

\* the slots of the pending table that hold a channel of call c
SlotsOf(c) == {k \in Keys : pending[k] = c}

\* C16: a Send whose request id is already in the pending table is rejected at
\* registration: the table keeps the earlier slot and the call does not go on
\* to the POST
C16_CollisionRejected ==
    [][\A c \in Calls :
          (/\ callPc[c] = "register"
           /\ callPc'[c] # "register"
           /\ pending[callKey[c]] # 0)
          => (pending' = pending /\ callPc'[c] = "idle")]_vars

\* C17: a Send call that has returned (or has not registered yet) holds no
\* slot of the pending table, whatever path it returned by
C17_SlotGoneOnReturn ==
    \A c \in Calls : callPc[c] \in {"idle", "register"} => SlotsOf(c) = {}

\* C17 witness: both calls were registered and have returned, one with the
\* disconnect error and one with a timeout, and the table is empty
C17_Witness ==
    /\ \A c \in Calls : callPc[c] = "idle"
    /\ callResult[1] = "upstream disconnected"
    /\ callResult[2] = "timeout"
    /\ \A k \in Keys : pending[k] = 0

\* C18: a slot of the pending table changes or disappears only in the step in
\* which the Send call that registered it runs its deferred delete
C18_OnlyOwnerRemoves ==
    [][\A k \in Keys :
          (pending[k] # 0 /\ pending'[k] # pending[k])
          => (callPc[pending[k]] = "unregister" /\ callPc'[pending[k]] = "idle")]_vars

\* C19: when handleDisconnect has run after the event stream ended, the client
\* is not connected and every call that held a slot of the pending table has
\* something in its response channel
C19_StreamEndFailsPending ==
    [][(stream = "ending" /\ stream' = "ended")
       => /\ ~connected'
          /\ \A c \in Calls : SlotsOf(c) # {} => respChan'[c] # "empty"]_vars

\* C20: the client is connected only when it holds a message URL
C20_ConnectedAfterEndpoint ==
    connected => messageURL # ""

\* C21: when Disconnect has been called and the reader goroutine finishes,
\* every call that holds a slot of the pending table has something in its
\* response channel to return with
C21_DisconnectFailsPending ==
    [][(clientDone /\ stream # "ended" /\ stream' = "ended")
       => \A c \in Calls : SlotsOf(c) # {} => respChan'[c] # "empty"]_vars

C23_MissAfterReplace ==
    [][\A c \in Evaluators, i \in PolicyInputs :
          (freshData /\ EvalGet(c, i)) => ~evalResult'[c].hit]_vars

\* C24: the enabled engine is ready exactly when its prepared query was
\* compiled from at least one module; the disabled engine is ready
C24_ReadyIffModuleLoaded ==
    /\ ~policyEnabled => IsReady
    /\ policyEnabled => (IsReady <=> (query.compiled /\ query.mod # 0))

\* C25: a Write call is never left waiting for ever: it does not hold
\* bufferMu and wait for metricMu while the holder of metricMu waits for
\* bufferMu
C25_WriteNeverBlocks ==
    ~(wPc = "drop" /\ bufferMu = "write" /\ metricMu \in {"stats", "stop"})

\* C26: when InsertBatch fails, the batch is counted as dropped, record for
\* record, nothing is counted as written and nothing goes back to the buffer;
\* a record counted as dropped is neither stored nor buffered again
C26_FailedBatchDropped ==
    /\ [](/\ lost \cap stored = {}
          /\ lost \cap Range(buffer) = {}
          /\ flPc # "count" => lost \cap Range(batch) = {})
    /\ [][(flPc = "count" /\ ~insertOk /\ flPc' # "count")
          => /\ dropped' = dropped + Len(batch)
             /\ written' = written
             /\ buffer' = buffer
             /\ batch' = <<>>
             /\ Range(batch) \subseteq lost']_vars

\* C26 witness: two records were written, their flush failed, and both are
\* counted as dropped
C26_Witness ==
    /\ nextRec = 2
    /\ dropped = 2
    /\ written = 0
    /\ lost = {1, 2}
    /\ stored = {}
    /\ buffer = <<>>
    /\ batch = <<>>

C29_StopIdempotent ==
    [][\A c \in Stoppers :
          (~srvStarted /\ ServerStop(c))
          => /\ srvResult'[c] = "nil"
             /\ ~srvPanic'
             /\ UNCHANGED <<srvStarted, srvDone, srvLoop, srvSession, srvStopPc>>]_vars

\* C29 witness: the server was started and stopped, and every Stop call made
\* has returned without a panic
C29_Witness ==
    /\ srvDone
    /\ ~srvStarted
    /\ ~srvPanic
    /\ srvLoop = "ended"
    /\ \A c \in Stoppers : srvStopPc[c] = "idle" /\ srvResult[c] = "nil"

\* C30: a Stop call made after an earlier Stop call has returned returns
\* without a panic and leaves the manager as it was
C30_ManagerStopIdempotent ==
    [][\A c \in Callers :
          (/\ managerDone
           /\ \A d \in Callers : mgrStopPc[d] = "idle"
           /\ ManagerStop(c))
          => /\ ~panicked'
             /\ UNCHANGED <<managerDone, sessions, closed, activeCount>>]_vars

\* the steps of Application.Stop that have returned are the first ones of
\* its order
LogInOrder == \E n \in 0..Len(StopOrder) : stopLog = SubSeq(StopOrder, 1, n)

\* a step of Application.Stop has returned
Returned(step) == step \in Range(stopLog)

\* C28: the steps of shutdown return in their order and each begins after
\* the one before it has returned: the transport is stopped after health is
\* not ready, the upstream disconnected after the transport has stopped, the
\* session manager stopped after that, the audit writer after that, and the
\* store is closed only when the audit writer's Stop has returned, its flush
\* loop ended and no batch is on its way
C28_ShutdownOrder ==
    /\ LogInOrder
    /\ (srvStopPc[1] # "idle" \/ srvResult[1] # "none") => (~ready /\ Returned("health"))
    /\ clientDone => Returned("transport")
    /\ managerDone => Returned("upstream")
    /\ cancelled => (Returned("sessions") /\ mgrStopPc[1] = "idle")
    /\ storeClosed => /\ Returned("audit")
                      /\ stopPc = "returned"
                      /\ flPc = "exited"
                      /\ batch = <<>>
                      /\ atStop \subseteq stored \cup lost

\* C28 witness: shutdown has run to its end and the final flush stored
\* records before the store was closed
C28_Witness ==
    /\ appPc = "stopped"
    /\ stopLog = StopOrder
    /\ storeClosed
    /\ final
    /\ flushes >= 1
    /\ stored # {}
    /\ buffer = <<>>

\* C34: a cache hit never returns a decision computed against policy data
\* that has since been replaced: the data of a decision returned as a hit is
\* the engine's current data (or that of its current query, when the
\* recompilation after the replacement failed)
C34_NoStaleDataHit ==
    [][\A c \in Evaluators, i \in PolicyInputs :
          (EvalGet(c, i) /\ evalResult'[c].hit)
          => lastEval'.dec.data \in {policyData, query.data}]_vars

\* C40: a cache hit never returns a decision computed under modules that
\* LoadPolicies has since replaced: the modules of a decision returned as a
\* hit are those of the engine's current query
C40_NoStaleModuleHit ==
    [][\A c \in Evaluators, i \in PolicyInputs :
          (EvalGet(c, i) /\ evalResult'[c].hit)
          => lastEval'.dec.mod = query.mod]_vars

\* no Write and no flush is in progress
Quiescent == wPc = "idle" /\ flPc \in {"off", "select", "exited"}

\* C38: at every quiescent point of the writer, written + dropped + the
\* number of buffered records is the number of Write calls made so far, and
\* every record of those calls is in exactly one place: stored once, counted
\* as dropped once, or in the buffer
C38_EveryRecordCounted ==
    Quiescent =>
        /\ written + dropped + Len(buffer) = nextRec
        /\ Cardinality(stored) = written
        /\ Cardinality(lost) = dropped
        /\ Cardinality(Range(buffer)) = Len(buffer)
        /\ stored \cap lost = {}
        /\ stored \cap Range(buffer) = {}
        /\ lost \cap Range(buffer) = {}
        /\ stored \cup lost \cup Range(buffer) = 1..nextRec

\* C38 witness: a quiescent point after all the Write calls, with records
\* stored, records dropped by Write at capacity and by a failed flush, and
\* records still buffered
C38_Witness ==
    /\ Quiescent
    /\ flPc = "select"
    /\ nextRec = MaxWrites
    /\ written >= 1
    /\ dropped >= 1
    /\ Len(buffer) >= 1

\* C32: every Send call returns, and a wait that is ended by the timer or by
\* the cancellation of the request context returns the timeout or the
\* cancellation error
C32_SendReturns ==
    /\ \A c \in Calls : (callPc[c] # "idle") ~> (callPc[c] = "idle")
    /\ [][\A c \in Calls, how \in {"timeout", "canceled"} :
             SendWait(c, how) => (callResult'[c] = how /\ callPc'[c] = "unregister")]_vars

\* C32 witness: a Send has returned the timeout error while the other is
\* still waiting for its reply
C32_Witness ==
    \E c, d \in Calls :
        /\ callPc[c] = "idle"
        /\ callResult[c] = "timeout"
        /\ callPc[d] = "wait"
        /\ respChan[d] = "empty"

C37_EchoOnlyWithoutUpstream ==
    (upstreamCalls > 0 /\ response.kind = "echo") => upstreamState = "none"

\* C35: the decision Evaluate returns for an input whose request_count has
\* reached the rate limit is a deny, also when it comes from the cache
C35_RateLimitSurvivesCache ==
    [][\A c \in Evaluators, i \in PolicyInputs :
          (policyEnabled /\ ~rate_limit_ok(i) /\ EvalGet(c, i)
             /\ evalResult'[c].kind = "decision")
          => ~DecisionAllows(lastEval'.dec)]_vars

\* the context Route works with when the object it initialises is new
FreshContext(m, rid) ==
    LET r == Parse(m).req
        e == extractRequestDetails(r, NewRequestContextOn(NoRequestContext, r, rid))
    IN IF e.err.ok THEN ExtractMeta(e.ctx, r.Params) ELSE e.ctx

ParseErrorLines ==
    {n \in 1..Len(output) : output[n].kind = "error" /\ output[n].code = CodeParseError
                            /\ output[n].id = NullID}

\* lines of stdin taken so far that are not valid JSON
NotJSONTaken ==
    {n \in 1..Len(consumed) : consumed[n] \in {"badjson", "toolong", "toolongjson"}}

\* C31: the parse error replies written are one for each input line read that
\* is not valid JSON, and no other line carries the code -32700
C31_OneParseErrorPerBadLine ==
    /\ Cardinality(ParseErrorLines) = Cardinality(NotJSONTaken)
    /\ \A n \in 1..Len(output) : output[n].code = CodeParseError => n \in ParseErrorLines

\* C39: the read loop writes at most one error reply for each input line it
\* has taken, and it has ended when the input is exhausted
C39_ErrorRepliesBounded ==
    Cardinality({n \in 1..Len(output) : output[n].kind = "error"}) <= Len(consumed)

====
